---------------------------- MODULE Spec2Model ----------------------------
(***************************************************************************)
(* Gem Miner (src/src/games/gem-miner/GemMiner.tsx, the 420-row variant):  *)
(* the simulation core of the component -- world, robot, fuel, cargo       *)
(* ledger, upgrades, depots, profiles and their persistence -- as a state  *)
(* machine.  Every handler of the component is one action; a handler and   *)
(* the re-render React performs before the next event are one step.        *)
(*                                                                         *)
(* Numbers.  The code computes with IEEE doubles; every rounding below is  *)
(* written in integer arithmetic and agrees with the double computation on *)
(* the whole domain of the game (tile table x depths 0..419 x levels       *)
(* 0..11).  Hardness is kept in tenths, cooldowns in hundredths of a ms.   *)
(***************************************************************************)
EXTENDS Integers, Sequences, FiniteSets, TLC

(***************************************************************************)
(* Program constants                                                       *)
(***************************************************************************)
WORLD_WIDTH == 22
WORLD_HEIGHT == 420
MAX_UPGRADE_LEVEL == 11
PROFILE_COUNT == 3
DEPOT_INTERACT_DISTANCE == 1
ROCK_EFFICIENT_DRILL_TIER == 3
STONE_REQUIRED_DRILL_TIER == 6
AEGIS_REQUIRED_DRILL_TIER == 9
VOIDBED_REQUIRED_DRILL_TIER == 12
FUEL_UNIT_COST == 2
\* EMERGENCY_TOW_RECOVERY_FACTOR = 0.6, as the fraction TowNum / TowDen
TowNum == 3
TowDen == 5

(***************************************************************************)
(* Bounds of the model                                                     *)
(***************************************************************************)
\* operations explored from each initial session
MaxOps == 3

UpgradeIds == {"cargo", "drill", "fuel", "treads"}
DepotIds == {"sell", "fuel", "upgrade"}
NoDepot == "none"

DEPOTS == <<[id |-> "sell", x |-> 4, label |-> "SELL"],
            [id |-> "fuel", x |-> 11, label |-> "FUEL"],
            [id |-> "upgrade", x |-> 18, label |-> "RIG"]>>

CARGO_TYPES == <<"coal", "copper", "silver", "gold", "ruby", "platinum",
                 "diamond", "iridium", "aurelite", "cryostone", "helionite",
                 "voidCrystal">>

CargoTypeSet == {CARGO_TYPES[i] : i \in 1..Len(CARGO_TYPES)}

\* TILE_DEFS: value, and hardness in tenths
TILE_DEFS ==
  [dirt        |-> [value |-> 0,    hardness10 |-> 10],
   rock        |-> [value |-> 0,    hardness10 |-> 22],
   stone       |-> [value |-> 0,    hardness10 |-> 32],
   aegis       |-> [value |-> 0,    hardness10 |-> 49],
   voidbed     |-> [value |-> 0,    hardness10 |-> 66],
   coal        |-> [value |-> 14,   hardness10 |-> 16],
   copper      |-> [value |-> 24,   hardness10 |-> 25],
   silver      |-> [value |-> 42,   hardness10 |-> 30],
   gold        |-> [value |-> 74,   hardness10 |-> 38],
   ruby        |-> [value |-> 130,  hardness10 |-> 46],
   platinum    |-> [value |-> 190,  hardness10 |-> 52],
   diamond     |-> [value |-> 260,  hardness10 |-> 59],
   iridium     |-> [value |-> 360,  hardness10 |-> 64],
   aurelite    |-> [value |-> 520,  hardness10 |-> 70],
   cryostone   |-> [value |-> 740,  hardness10 |-> 76],
   helionite   |-> [value |-> 1050, hardness10 |-> 82],
   voidCrystal |-> [value |-> 1500, hardness10 |-> 92]]

(***************************************************************************)
(* Arithmetic helpers                                                      *)
(***************************************************************************)
Max(a, b) == IF a >= b THEN a ELSE b
Min(a, b) == IF a <= b THEN a ELSE b
Abs(a) == IF a < 0 THEN -a ELSE a

\* clamp(value, min, max) = Math.max(min, Math.min(max, value))
clamp(value, lo, hi) == Max(lo, Min(hi, value))

\* Math.round(num / den) for num >= 0, den > 0 (round half up)
RoundDiv(num, den) == (2 * num + den) \div (2 * den)

(***************************************************************************)
(* Progression model                                                       *)
(***************************************************************************)
getCargoCapacity(level) == 12 + level * 7
\* the drill tier counted one too high
getDrillTier_offByOne(level) == level + 2

getDrillTier(level) == level + 1
getFuelCapacity(level) == 90 + level * 30
getMoveDelayMs(level) == Max(78, 210 - level * 22)

\* Math.round(base * growth ** level) for level 0..11, per track:
\* 70 * 1.4^l, 85 * 1.45^l, 80 * 1.42^l, 95 * 1.5^l.  The powers exceed the
\* 32-bit integers of the model, so the rounded values are tabulated.
UpgradeCostTable ==
  [cargo  |-> <<70, 98, 137, 192, 269, 376, 527, 738, 1033, 1446, 2025, 2835>>,
   drill  |-> <<85, 123, 179, 259, 376, 545, 790, 1145, 1661, 2408, 3492, 5064>>,
   fuel   |-> <<80, 114, 161, 229, 325, 462, 656, 931, 1323, 1878, 2667, 3787>>,
   treads |-> <<95, 143, 214, 321, 481, 721, 1082, 1623, 2435, 3652, 5478, 8217>>]

getUpgradeCost(id, level) == UpgradeCostTable[id][level + 1]

isSellableCargoTile(tile) == tile \in CargoTypeSet

createEmptyCargoManifest == [t \in CargoTypeSet |-> [count |-> 0, value |-> 0]]

defaultProgress ==
  [money |-> 0, totalEarned |-> 0, cargoLevel |-> 0, drillLevel |-> 0,
   fuelLevel |-> 0, treadsLevel |-> 0]

\* Math.max(0, Math.floor(Number(v) || 0)) on an integer field
SanitizeAmount(v) == Max(0, v)
\* the level without its upper limit
SanitizeLevel_noCeiling(v) == Max(0, v)
\* clamp(Math.floor(Number(v) || 0), 0, MAX_UPGRADE_LEVEL) on an integer field
SanitizeLevel(v) == clamp(v, 0, MAX_UPGRADE_LEVEL)

sanitizeProgress(value) ==
  [money       |-> SanitizeAmount(value.money),
   totalEarned |-> SanitizeAmount(value.totalEarned),
   cargoLevel  |-> SanitizeLevel(value.cargoLevel),
   drillLevel  |-> SanitizeLevel(value.drillLevel),
   fuelLevel   |-> SanitizeLevel(value.fuelLevel),
   treadsLevel |-> SanitizeLevel(value.treadsLevel)]

(***************************************************************************)
(* World generator                                                         *)
(***************************************************************************)
\* the generator with the table of the shallowest band at every depth
pickTileByDepth_oneBand(depth, roll) ==
  IF roll < 62 THEN "dirt" ELSE IF roll < 82 THEN "rock"
  ELSE IF roll < 94 THEN "coal" ELSE "copper"

\* pickTileByDepth with the uniform roll made explicit: roll is
\* floor(100 * Math.random()), 0..99; every threshold of the tables is a
\* whole number of hundredths.
pickTileByDepth(depth, roll) ==
  IF depth < 18 THEN
    IF roll < 62 THEN "dirt" ELSE IF roll < 82 THEN "rock"
    ELSE IF roll < 94 THEN "coal" ELSE "copper"
  ELSE IF depth < 40 THEN
    IF roll < 36 THEN "dirt" ELSE IF roll < 64 THEN "rock"
    ELSE IF roll < 80 THEN "coal" ELSE IF roll < 92 THEN "copper" ELSE "silver"
  ELSE IF depth < 70 THEN
    IF roll < 15 THEN "dirt" ELSE IF roll < 45 THEN "rock"
    ELSE IF roll < 65 THEN "stone" ELSE IF roll < 77 THEN "coal"
    ELSE IF roll < 89 THEN "copper" ELSE IF roll < 97 THEN "silver" ELSE "gold"
  ELSE IF depth < 105 THEN
    IF roll < 22 THEN "rock" ELSE IF roll < 56 THEN "stone"
    ELSE IF roll < 64 THEN "coal" ELSE IF roll < 76 THEN "copper"
    ELSE IF roll < 88 THEN "silver" ELSE IF roll < 95 THEN "gold"
    ELSE IF roll < 99 THEN "ruby" ELSE "platinum"
  ELSE IF depth < 145 THEN
    IF roll < 34 THEN "stone" ELSE IF roll < 58 THEN "aegis"
    ELSE IF roll < 66 THEN "copper" ELSE IF roll < 76 THEN "silver"
    ELSE IF roll < 85 THEN "gold" ELSE IF roll < 92 THEN "ruby"
    ELSE IF roll < 96 THEN "platinum" ELSE IF roll < 99 THEN "diamond"
    ELSE "iridium"
  ELSE IF depth < 190 THEN
    IF roll < 20 THEN "stone" ELSE IF roll < 58 THEN "aegis"
    ELSE IF roll < 66 THEN "silver" ELSE IF roll < 76 THEN "gold"
    ELSE IF roll < 84 THEN "ruby" ELSE IF roll < 90 THEN "platinum"
    ELSE IF roll < 95 THEN "diamond" ELSE IF roll < 98 THEN "iridium"
    ELSE "aurelite"
  ELSE IF depth < 245 THEN
    IF roll < 36 THEN "aegis" ELSE IF roll < 54 THEN "voidbed"
    ELSE IF roll < 62 THEN "gold" ELSE IF roll < 70 THEN "ruby"
    ELSE IF roll < 78 THEN "platinum" ELSE IF roll < 85 THEN "diamond"
    ELSE IF roll < 91 THEN "iridium" ELSE IF roll < 96 THEN "aurelite"
    ELSE IF roll < 99 THEN "cryostone" ELSE "helionite"
  ELSE IF depth < 320 THEN
    IF roll < 20 THEN "aegis" ELSE IF roll < 54 THEN "voidbed"
    ELSE IF roll < 61 THEN "platinum" ELSE IF roll < 69 THEN "diamond"
    ELSE IF roll < 77 THEN "iridium" ELSE IF roll < 86 THEN "aurelite"
    ELSE IF roll < 93 THEN "cryostone" ELSE IF roll < 98 THEN "helionite"
    ELSE "voidCrystal"
  ELSE
    IF roll < 12 THEN "aegis" ELSE IF roll < 45 THEN "voidbed"
    ELSE IF roll < 53 THEN "diamond" ELSE IF roll < 63 THEN "iridium"
    ELSE IF roll < 74 THEN "aurelite" ELSE IF roll < 86 THEN "cryostone"
    ELSE IF roll < 95 THEN "helionite" ELSE "voidCrystal"


\* The random source of one shaft: the roll (0..99) drawn for cell (x, y) of
\* the shaft generated from `seed`.  createWorld draws one roll per cell, row
\* by row; a seed fixes the whole sequence.
RollAt(seed, x, y) == (seed + 37 * x + 61 * y + 7 * x * y) % 100

\* createWorld: the grid is kept as the seed it was generated from and the
\* set of cells mined since (each set to "empty" in place).
createWorld(seed) == [seed |-> seed, mined |-> {}]

\* the world with row 0 drawn like any other row
TileAt_noSurface(world, x, y) ==
  IF <<x, y>> \in world.mined THEN "empty"
  ELSE pickTileByDepth(y, RollAt(world.seed, x, y))

\* worldRef.current[y][x]; row 0 is pushed as "empty" by createWorld
TileAt(world, x, y) ==
  IF y = 0 \/ <<x, y>> \in world.mined THEN "empty"
  ELSE pickTileByDepth(y, RollAt(world.seed, x, y))

\* the mined tile is left in the grid
SetEmpty_keepsTile(world, x, y) == world

\* worldRef.current[y][x] = "empty"
SetEmpty(world, x, y) ==
  IF y = 0 THEN world ELSE [world EXCEPT !.mined = @ \cup {<<x, y>>}]

getNearbyDepotIdForPosition(x, y) ==
  IF y # 0 THEN NoDepot
  ELSE IF \E i \in 1..Len(DEPOTS) : Abs(x - DEPOTS[i].x) <= DEPOT_INTERACT_DISTANCE
       THEN DEPOTS[CHOOSE i \in 1..Len(DEPOTS) :
                     /\ Abs(x - DEPOTS[i].x) <= DEPOT_INTERACT_DISTANCE
                     /\ \A j \in 1..(i - 1) :
                          Abs(x - DEPOTS[j].x) > DEPOT_INTERACT_DISTANCE].id
       ELSE NoDepot

(***************************************************************************)
(* Persistence: localStorage as seen by the component.  profiles[p] is the *)
(* record stored under the key of profile p, or NoSave; index is the value *)
(* under the profile-index key, or NoIndex.                                *)
(***************************************************************************)
NoSave == [money |-> -1, totalEarned |-> -1, cargoLevel |-> -1,
           drillLevel |-> -1, fuelLevel |-> -1, treadsLevel |-> -1,
           absent |-> TRUE]
NoIndex == -1

Saved(p) == [money |-> p.money, totalEarned |-> p.totalEarned,
             cargoLevel |-> p.cargoLevel, drillLevel |-> p.drillLevel,
             fuelLevel |-> p.fuelLevel, treadsLevel |-> p.treadsLevel,
             absent |-> FALSE]

\* readJson(getProgressKey(profileIndex), defaultProgress)
readProgress(storage, profileIndex) ==
  IF storage.profiles[profileIndex].absent THEN defaultProgress
  ELSE storage.profiles[profileIndex]

\* persistProgress writing under the key of the first profile
persistProgress_firstSlot(s) ==
  [s EXCEPT !.storage.profiles[0] =
     Saved([money |-> s.money, totalEarned |-> s.totalEarned,
            cargoLevel |-> s.cargoLevel, drillLevel |-> s.drillLevel,
            fuelLevel |-> s.fuelLevel, treadsLevel |-> s.treadsLevel])]

\* persistProgress: writeJson(getProgressKey(activeProfileRef.current), {...})
persistProgress(s) ==
  [s EXCEPT !.storage.profiles[s.activeProfile] =
     Saved([money |-> s.money, totalEarned |-> s.totalEarned,
            cargoLevel |-> s.cargoLevel, drillLevel |-> s.drillLevel,
            fuelLevel |-> s.fuelLevel, treadsLevel |-> s.treadsLevel])]

applyProgressSnapshot(s, progress) ==
  [s EXCEPT !.money = progress.money,
            !.totalEarned = progress.totalEarned,
            !.cargoLevel = progress.cargoLevel,
            !.drillLevel = progress.drillLevel,
            !.fuelLevel = progress.fuelLevel,
            !.treadsLevel = progress.treadsLevel]

\* the hub's record of high scores, one per game of GAME_DEFINITIONS, when
\* the best score of Gem Miner is best
GameIds == {"neon-dodger", "tetris", "gem-miner"}
HubScores(best) ==
  [g \in GameIds |-> IF g = "gem-miner" THEN best
                     ELSE IF g = "tetris" THEN 100 ELSE 35]

\* the hub's handleHighScore raising every score below nextScore
handleHighScore_allGames(scores, gameId, nextScore) ==
  [g \in GameIds |-> IF nextScore <= scores[g] THEN scores[g] ELSE nextScore]

\* the hub's handleHighScore(gameId, nextScore) on its highScores state
handleHighScore(scores, gameId, nextScore) ==
  IF nextScore <= scores[gameId] THEN scores
  ELSE [scores EXCEPT ![gameId] = nextScore]

\* reportHighScoreIfNeeded with the test against the recorded best left out
reportHighScoreIfNeeded_always(s) ==
  [s EXCEPT !.highScores = [@ EXCEPT !["gem-miner"] = s.totalEarned],
            !.highScore = s.totalEarned]

\* reportHighScoreIfNeeded; onHighScore is the hub's handleHighScore for
\* this game, and the re-render passes the new score back as highScore
reportHighScoreIfNeeded(s) ==
  IF s.totalEarned > s.highScore
  THEN LET scores == handleHighScore(s.highScores, "gem-miner", s.totalEarned)
       IN [s EXCEPT !.highScores = scores, !.highScore = scores["gem-miner"]]
  ELSE s

handleSurfaceDock(s) ==
  IF s.robotY # 0 THEN s ELSE [s EXCEPT !.stranded = FALSE]

(***************************************************************************)
(* The component after construction (the useRef / useState initial values) *)
(***************************************************************************)
Constructed(storage, highScore, seed) ==
  [world |-> createWorld(seed),
   robotX |-> WORLD_WIDTH \div 2,
   robotY |-> 0,
   drillAim |-> "forward",
   robotFacing |-> 1,
   money |-> 0,
   cargoValue |-> 0,
   cargoUsed |-> 0,
   cargoManifest |-> createEmptyCargoManifest,
   fuel |-> getFuelCapacity(0),
   totalEarned |-> 0,
   cargoLevel |-> 0,
   drillLevel |-> 0,
   fuelLevel |-> 0,
   treadsLevel |-> 0,
   status |-> "Touch down on Mars and start drilling.",
   stranded |-> FALSE,
   paused |-> FALSE,
   activeProfile |-> 0,
   depotPanel |-> NoDepot,
   actionCooldownMs |-> 0,
   spriteLoadState |-> "loading",
   renderMode |-> "sprite",
   highScore |-> highScore,
   highScores |-> HubScores(highScore),
   storage |-> storage]

(***************************************************************************)
(* Economy and cargo ledger                                                *)
(***************************************************************************)
\* sellCargo with the lifetime total assigned instead of accumulated
sellCargo_overwritesTotal(s) ==
  IF s.depotPanel # "sell"
  THEN [s EXCEPT !.status = "Open the SELL depot to sell cargo."]
  ELSE IF s.cargoValue <= 0
  THEN [s EXCEPT !.status = "No sellable cargo right now."]
  ELSE LET sold == s.cargoValue
           s1 == [s EXCEPT !.money = @ + sold,
                           !.totalEarned = sold,
                           !.cargoValue = 0,
                           !.cargoUsed = 0,
                           !.cargoManifest = createEmptyCargoManifest]
           s2 == reportHighScoreIfNeeded(s1)
       IN persistProgress([s2 EXCEPT !.status = "Sold cargo."])

\* sellCargo with the totals zeroed and the manifest left as it was
sellCargo_keepsManifest(s) ==
  IF s.depotPanel # "sell"
  THEN [s EXCEPT !.status = "Open the SELL depot to sell cargo."]
  ELSE IF s.cargoValue <= 0
  THEN [s EXCEPT !.status = "No sellable cargo right now."]
  ELSE LET sold == s.cargoValue
           s1 == [s EXCEPT !.money = @ + sold,
                           !.totalEarned = @ + sold,
                           !.cargoValue = 0,
                           !.cargoUsed = 0]
           s2 == reportHighScoreIfNeeded(s1)
       IN persistProgress([s2 EXCEPT !.status = "Sold cargo."])

sellCargo(s) ==
  IF s.depotPanel # "sell"
  THEN [s EXCEPT !.status = "Open the SELL depot to sell cargo."]
  ELSE IF s.cargoValue <= 0
  THEN [s EXCEPT !.status = "No sellable cargo right now."]
  ELSE LET sold == s.cargoValue
           s1 == [s EXCEPT !.money = @ + sold,
                           !.totalEarned = @ + sold,
                           !.cargoValue = 0,
                           !.cargoUsed = 0,
                           !.cargoManifest = createEmptyCargoManifest]
           s2 == reportHighScoreIfNeeded(s1)
       IN persistProgress([s2 EXCEPT !.status = "Sold cargo."])

\* requestedUnits: [given |-> FALSE] for undefined, else the number in tenths
NoRequest == [given |-> FALSE, tenths |-> 0]
Request(tenths) == [given |-> TRUE, tenths |-> tenths]

\* unitsBought without the clamp to what is missing and affordable
UnitsBought_unclamped(requestedUnits, maxPurchasableUnits) ==
  IF requestedUnits.given
  THEN Max(1, requestedUnits.tenths \div 10)
  ELSE maxPurchasableUnits

\* unitsBought with Math.round in the place of Math.floor
UnitsBought_rounds(requestedUnits, maxPurchasableUnits) ==
  IF requestedUnits.given
  THEN clamp(RoundDiv(requestedUnits.tenths, 10), 1, maxPurchasableUnits)
  ELSE maxPurchasableUnits

\* typeof requestedUnits === "number" && Number.isFinite(requestedUnits)
\*   ? clamp(Math.floor(requestedUnits), 1, maxPurchasableUnits)
\*   : maxPurchasableUnits
UnitsBought(requestedUnits, maxPurchasableUnits) ==
  IF requestedUnits.given
  THEN clamp(requestedUnits.tenths \div 10, 1, maxPurchasableUnits)
  ELSE maxPurchasableUnits

refuelAtDepot(s, requestedUnits) ==
  IF s.depotPanel # "fuel"
  THEN [s EXCEPT !.status = "Open the FUEL depot to refuel."]
  ELSE LET fuelCapacity == getFuelCapacity(s.fuelLevel)
           missingFuel == Max(0, fuelCapacity - s.fuel)
           affordableUnits == s.money \div FUEL_UNIT_COST
           maxPurchasableUnits == Min(missingFuel, affordableUnits)
           unitsBought == UnitsBought(requestedUnits, maxPurchasableUnits)
           fuelCost == unitsBought * FUEL_UNIT_COST
       IN IF missingFuel <= 0
          THEN [s EXCEPT !.status = "Tank already full."]
          ELSE IF maxPurchasableUnits <= 0
          THEN [s EXCEPT !.status = "Refuel costs $2 per unit."]
          ELSE LET s1 == [s EXCEPT !.money = @ - fuelCost,
                                   !.fuel = @ + unitsBought,
                                   !.stranded = FALSE]
                   s2 == persistProgress(s1)
               IN [s2 EXCEPT !.status =
                     IF unitsBought = missingFuel THEN "Tank topped off."
                     ELSE "Bought fuel."]

LevelOf(s, id) ==
  IF id = "cargo" THEN s.cargoLevel
  ELSE IF id = "drill" THEN s.drillLevel
  ELSE IF id = "fuel" THEN s.fuelLevel
  ELSE s.treadsLevel

\* the purchase with every track refilling the tank
InstallUpgrade_refillsAlways(s, id, cost) ==
  LET s1 == [s EXCEPT !.money = @ - cost,
                      !.fuel = getFuelCapacity(s.fuelLevel + (IF id = "fuel" THEN 1 ELSE 0))]
      s2 == IF id = "cargo"
            THEN [s1 EXCEPT !.cargoLevel = @ + 1,
                            !.status = "Cargo Rack upgraded."]
            ELSE IF id = "drill"
            THEN [s1 EXCEPT !.drillLevel = @ + 1,
                            !.status = "Drill Bit upgraded."]
            ELSE IF id = "fuel"
            THEN [s1 EXCEPT !.fuelLevel = @ + 1,
                            !.status = "Fuel Tank upgraded and topped off."]
            ELSE [s1 EXCEPT !.treadsLevel = @ + 1,
                            !.status = "Treads upgraded."]
  IN persistProgress(s2)

\* the accepted purchase: pay, raise the track, save
InstallUpgrade(s, id, cost) ==
  LET s1 == [s EXCEPT !.money = @ - cost]
      s2 == IF id = "cargo"
            THEN [s1 EXCEPT !.cargoLevel = @ + 1,
                            !.status = "Cargo Rack upgraded."]
            ELSE IF id = "drill"
            THEN [s1 EXCEPT !.drillLevel = @ + 1,
                            !.status = "Drill Bit upgraded."]
            ELSE IF id = "fuel"
            THEN [s1 EXCEPT !.fuelLevel = @ + 1,
                            !.fuel = getFuelCapacity(s1.fuelLevel + 1),
                            !.status = "Fuel Tank upgraded and topped off."]
            ELSE [s1 EXCEPT !.treadsLevel = @ + 1,
                            !.status = "Treads upgraded."]
  IN persistProgress(s2)

\* purchaseUpgrade with the price test off by one
purchaseUpgrade_offByOne(s, id) ==
  IF s.stranded
  THEN [s EXCEPT !.status = "Recover your bot before buying upgrades."]
  ELSE IF s.depotPanel # "upgrade"
  THEN [s EXCEPT !.status = "Open the RIG depot to install upgrades."]
  ELSE IF s.robotY # 0
  THEN [s EXCEPT !.status = "Dock at the surface to install upgrades."]
  ELSE LET level == LevelOf(s, id) IN
    IF level >= MAX_UPGRADE_LEVEL
    THEN [s EXCEPT !.status = "Upgrade is already at max tier."]
    ELSE LET cost == getUpgradeCost(id, level) IN
      IF s.money < cost - 1
      THEN [s EXCEPT !.status = "Not enough cash for that upgrade yet."]
      ELSE InstallUpgrade(s, id, cost)

purchaseUpgrade(s, id) ==
  IF s.stranded
  THEN [s EXCEPT !.status = "Recover your bot before buying upgrades."]
  ELSE IF s.depotPanel # "upgrade"
  THEN [s EXCEPT !.status = "Open the RIG depot to install upgrades."]
  ELSE IF s.robotY # 0
  THEN [s EXCEPT !.status = "Dock at the surface to install upgrades."]
  ELSE LET level == LevelOf(s, id) IN
    IF level >= MAX_UPGRADE_LEVEL
    THEN [s EXCEPT !.status = "Upgrade is already at max tier."]
    ELSE LET cost == getUpgradeCost(id, level) IN
      IF s.money < cost
      THEN [s EXCEPT !.status = "Not enough cash for that upgrade yet."]
      ELSE InstallUpgrade(s, id, cost)

(***************************************************************************)
(* Movement and mining                                                     *)
(***************************************************************************)
\* the stranding test with < in the place of <=
setStrandedIfNeeded_belowZero(s) ==
  IF s.fuel < 0 /\ s.robotY > 0
  THEN [s EXCEPT !.fuel = 0,
                 !.stranded = TRUE,
                 !.depotPanel = NoDepot,
                 !.status = "Out of fuel underground. Trigger emergency tow."]
  ELSE s

setStrandedIfNeeded(s) ==
  IF s.fuel <= 0 /\ s.robotY > 0
  THEN [s EXCEPT !.fuel = 0,
                 !.stranded = TRUE,
                 !.depotPanel = NoDepot,
                 !.status = "Out of fuel underground. Trigger emergency tow."]
  ELSE s

\* the fuel is spent and the stranding test is left out
spendFuel_noStrandCheck(s, amount) ==
  [s EXCEPT !.fuel = Max(0, s.fuel - amount)]

\* fuel is spent only when the tank holds the whole amount
spendFuel_onlyWhenCovered(s, amount) ==
  IF amount > s.fuel THEN s
  ELSE setStrandedIfNeeded([s EXCEPT !.fuel = s.fuel - amount])

spendFuel(s, amount) ==
  setStrandedIfNeeded([s EXCEPT !.fuel = Max(0, s.fuel - amount)])

\* Math.round(tileDef.value * (1 + nextY / 95))
MinedValue(tile, nextY) == RoundDiv(TILE_DEFS[tile].value * (95 + nextY), 95)

\* Math.max(0, ROCK_EFFICIENT_DRILL_TIER - drillTier) for rock, else 0
WeakRockTierGap(tile, drillTier) ==
  IF tile = "rock" THEN Max(0, ROCK_EFFICIENT_DRILL_TIER - drillTier) ELSE 0

\* the fuel cost without the weak-drill penalty on rock
FuelCost_noPenalty(tile, drillTier) ==
  Max(1, RoundDiv(TILE_DEFS[tile].hardness10 * 115, 1000))

\* Math.max(1, Math.round(hardness * 1.15 * (1 + gap * 0.75)))
FuelCost(tile, drillTier) ==
  Max(1, RoundDiv(TILE_DEFS[tile].hardness10 * 115
                    * (4 + 3 * WeakRockTierGap(tile, drillTier)), 4000))

\* Math.max(65, Math.round((95 + hardness * 185 / drillPower) * (1 + gap * 0.9)))
\* with drillPower = 1 + level * 0.6; in hundredths of a ms
DrillDelay(tile, drillLevel) ==
  100 * Max(65, RoundDiv((95 * (10 + 6 * drillLevel) + TILE_DEFS[tile].hardness10 * 185)
                           * (10 + 9 * WeakRockTierGap(tile, getDrillTier(drillLevel))),
                         (10 + 6 * drillLevel) * 10))

\* the value attemptStep returns for null
Null == -1

BreakStatus(tile, drillTier) ==
  IF isSellableCargoTile(tile) THEN "Mined ore."
  ELSE IF tile = "voidbed" THEN "Bored through voidbed."
  ELSE IF tile = "aegis" THEN "Cut through aegis strata."
  ELSE IF tile = "stone" THEN "Drilled through stone."
  ELSE IF tile = "rock"
  THEN IF WeakRockTierGap(tile, drillTier) > 0
       THEN "Drilled weakly through rock (extra fuel burned)."
       ELSE "Drilled through rock."
  ELSE "Plowed through dirt."

\* the cargo test with > in the place of >=
CargoFull_offByOne(s, targetTile) ==
  isSellableCargoTile(targetTile) /\ s.cargoUsed > getCargoCapacity(s.cargoLevel)

\* the cargo test applied to every tile, sellable or not
CargoFull_anyTile(s, targetTile) ==
  s.cargoUsed >= getCargoCapacity(s.cargoLevel)

\* isSellableOre && cargoUsedRef.current >= capacity
CargoFull(s, targetTile) ==
  isSellableCargoTile(targetTile) /\ s.cargoUsed >= getCargoCapacity(s.cargoLevel)

\* the step gate without the pause test
StepGate_ignoresPause(s) == s.stranded \/ s.depotPanel # NoDepot

\* pausedRef.current || strandedRef.current || depotPanelRef.current
StepGate(s) == s.paused \/ s.stranded \/ s.depotPanel # NoDepot

\* attemptStep(dx, dy): the state it leaves and the cooldown it returns
\* (hundredths of a ms, Null for null)
attemptStep(s, dx, dy) ==
  IF StepGate(s)
  THEN [s |-> s, ret |-> Null]
  ELSE
  LET s1 == [s EXCEPT !.drillAim = IF dy > 0 THEN "down"
                                   ELSE IF dx # 0 \/ dy < 0 THEN "forward"
                                   ELSE @]
      nextX == s.robotX + dx
      nextY == s.robotY + dy
  IN
  IF nextX < 0 \/ nextX >= WORLD_WIDTH \/ nextY < 0 \/ nextY >= WORLD_HEIGHT
  THEN [s |-> s1, ret |-> Null]
  ELSE
  LET targetTile == TileAt(s.world, nextX, nextY)
      moveDelayMs == getMoveDelayMs(s.treadsLevel)
      s2 == [s1 EXCEPT !.robotFacing = IF dx < 0 THEN -1
                                       ELSE IF dx > 0 THEN 1 ELSE @]
      canCoastAtSurface == s.robotY = 0 /\ nextY = 0 /\ targetTile = "empty"
  IN
  IF s2.fuel <= 0 /\ ~canCoastAtSurface
  THEN [s |-> setStrandedIfNeeded(s2), ret |-> Null]
  ELSE IF targetTile = "empty"
  THEN LET s3 == [s2 EXCEPT !.robotX = nextX, !.robotY = nextY]
           \* the test reads robotYRef.current after it was set to nextY
           s4 == IF ~(s3.robotY = 0 /\ nextY = 0) THEN spendFuel(s3, 1) ELSE s3
       IN [s |-> handleSurfaceDock(s4), ret |-> 100 * moveDelayMs]
  ELSE
  LET isSellableOre == isSellableCargoTile(targetTile)
      drillTier == getDrillTier(s.drillLevel)
  IN
  IF CargoFull(s, targetTile)
  THEN [s |-> [s2 EXCEPT !.status = "Cargo full. Return to the surface to sell."],
        ret |-> Max(6000, moveDelayMs * 50)]
  ELSE IF targetTile = "stone" /\ drillTier < STONE_REQUIRED_DRILL_TIER
  THEN [s |-> [s2 EXCEPT !.status = "Stone needs better drill hardware."],
        ret |-> Max(9000, moveDelayMs * 70)]
  ELSE IF targetTile = "aegis" /\ drillTier < AEGIS_REQUIRED_DRILL_TIER
  THEN [s |-> [s2 EXCEPT !.status = "Aegis Strata requires better drill hardware."],
        ret |-> Max(10000, moveDelayMs * 80)]
  ELSE IF targetTile = "voidbed" /\ drillTier < VOIDBED_REQUIRED_DRILL_TIER
  THEN [s |-> [s2 EXCEPT !.status = "Voidbed requires better drill hardware."],
        ret |-> Max(11200, moveDelayMs * 85)]
  ELSE
  LET minedValue == MinedValue(targetTile, nextY)
      s3 == [s2 EXCEPT !.world = SetEmpty(@, nextX, nextY),
                       !.robotX = nextX,
                       !.robotY = nextY]
      s4 == IF isSellableOre
            THEN [s3 EXCEPT !.cargoUsed = @ + 1,
                            !.cargoValue = @ + minedValue,
                            !.cargoManifest[targetTile].count = @ + 1,
                            !.cargoManifest[targetTile].value = @ + minedValue]
            ELSE s3
      s5 == spendFuel(s4, FuelCost(targetTile, drillTier))
      s6 == [s5 EXCEPT !.status = BreakStatus(targetTile, drillTier)]
  IN [s |-> handleSurfaceDock(s6), ret |-> DrillDelay(targetTile, s.drillLevel)]

\* the recovery rounded to the nearest integer
TowFloor_rounds(n) == RoundDiv(n * TowNum, TowDen)

\* Math.floor(n * EMERGENCY_TOW_RECOVERY_FACTOR)
TowFloor(n) == (n * TowNum) \div TowDen

TowDamage(entry) ==
  [count |-> TowFloor(entry.count), value |-> TowFloor(entry.value)]

RECURSIVE SumCount(_, _)
\* CARGO_TYPES.reduce((total, type) => total + manifest[type].count, 0)
SumCount(manifest, i) ==
  IF i = 0 THEN 0 ELSE SumCount(manifest, i - 1) + manifest[CARGO_TYPES[i]].count

RECURSIVE SumValue(_, _)
\* CARGO_TYPES.reduce((total, type) => total + manifest[type].value, 0)
SumValue(manifest, i) ==
  IF i = 0 THEN 0 ELSE SumValue(manifest, i - 1) + manifest[CARGO_TYPES[i]].value

\* emergencyTow without the test for a stranded robot
emergencyTow_unguarded(s) ==
  LET manifest == [t \in CargoTypeSet |-> TowDamage(s.cargoManifest[t])]
      s1 == [s EXCEPT !.depotPanel = NoDepot,
                      !.cargoManifest = manifest,
                      !.cargoUsed = SumCount(manifest, Len(CARGO_TYPES)),
                      !.cargoValue = SumValue(manifest, Len(CARGO_TYPES)),
                      !.robotY = 0,
                      !.fuel = getFuelCapacity(s.fuelLevel),
                      !.stranded = FALSE,
                      !.status = "Emergency tow complete. Some cargo was damaged."]
  IN handleSurfaceDock(s1)

\* emergencyTow with the totals scaled themselves, not summed again
emergencyTow_scalesTotals(s) ==
  IF ~s.stranded THEN s
  ELSE LET manifest == [t \in CargoTypeSet |-> TowDamage(s.cargoManifest[t])]
           s1 == [s EXCEPT !.depotPanel = NoDepot,
                           !.cargoManifest = manifest,
                           !.cargoUsed = TowFloor(s.cargoUsed),
                           !.cargoValue = TowFloor(s.cargoValue),
                           !.robotY = 0,
                           !.fuel = getFuelCapacity(s.fuelLevel),
                           !.stranded = FALSE,
                           !.status = "Emergency tow complete. Some cargo was damaged."]
       IN handleSurfaceDock(s1)

emergencyTow(s) ==
  IF ~s.stranded THEN s
  ELSE LET manifest == [t \in CargoTypeSet |-> TowDamage(s.cargoManifest[t])]
           s1 == [s EXCEPT !.depotPanel = NoDepot,
                           !.cargoManifest = manifest,
                           !.cargoUsed = SumCount(manifest, Len(CARGO_TYPES)),
                           !.cargoValue = SumValue(manifest, Len(CARGO_TYPES)),
                           !.robotY = 0,
                           !.fuel = getFuelCapacity(s.fuelLevel),
                           !.stranded = FALSE,
                           !.status = "Emergency tow complete. Some cargo was damaged."]
       IN handleSurfaceDock(s1)

\* togglePause refused while the robot is stranded
togglePause_notWhileStranded(s) ==
  IF s.stranded THEN s
  ELSE [s EXCEPT !.paused = ~@,
                 !.status = IF ~s.paused THEN "Paused." ELSE "Resumed."]

togglePause(s) ==
  [s EXCEPT !.paused = ~@,
            !.status = IF ~s.paused THEN "Paused." ELSE "Resumed."]

(***************************************************************************)
(* Shafts and profiles                                                     *)
(***************************************************************************)
\* startNewShaft resetting the progress whatever keepProgress says
startNewShaft_alwaysResets(s, keepProgress, statusOverride, seed) ==
  LET s1 == [s EXCEPT !.world = createWorld(seed),
                      !.robotX = WORLD_WIDTH \div 2,
                      !.robotY = 0,
                      !.drillAim = "forward",
                      !.robotFacing = 1,
                      !.cargoValue = 0,
                      !.cargoUsed = 0,
                      !.cargoManifest = createEmptyCargoManifest,
                      !.stranded = FALSE,
                      !.paused = FALSE,
                      !.actionCooldownMs = 0,
                      !.depotPanel = NoDepot]
      s2 == persistProgress(
              [s1 EXCEPT !.money = 0,
                         !.totalEarned = 0,
                         !.cargoLevel = 0,
                         !.drillLevel = 0,
                         !.fuelLevel = 0,
                         !.treadsLevel = 0,
                         !.status = IF statusOverride = ""
                                    THEN "Mars operation online. Dig smart."
                                    ELSE statusOverride])
  IN [s2 EXCEPT !.fuel = getFuelCapacity(s2.fuelLevel)]

\* startNewShaft(keepProgress, statusOverride); seed is the random source of
\* the shaft createWorld generates
\* a new shaft that leaves the cargo aboard
startNewShaft_keepsCargo(s, keepProgress, statusOverride, seed) ==
  LET s1 == [s EXCEPT !.world = createWorld(seed),
                      !.robotX = WORLD_WIDTH \div 2,
                      !.robotY = 0,
                      !.drillAim = "forward",
                      !.robotFacing = 1,
                      !.stranded = FALSE,
                      !.paused = FALSE,
                      !.actionCooldownMs = 0,
                      !.depotPanel = NoDepot]
      s2 == IF ~keepProgress
            THEN persistProgress(
                   [s1 EXCEPT !.money = 0,
                              !.totalEarned = 0,
                              !.cargoLevel = 0,
                              !.drillLevel = 0,
                              !.fuelLevel = 0,
                              !.treadsLevel = 0,
                              !.status = IF statusOverride = ""
                                         THEN "Mars operation online. Dig smart."
                                         ELSE statusOverride])
            ELSE [s1 EXCEPT !.status = IF statusOverride = ""
                                       THEN "Fresh Martian shaft generated. Progress kept."
                                       ELSE statusOverride]
  IN [s2 EXCEPT !.fuel = getFuelCapacity(s2.fuelLevel)]

startNewShaft(s, keepProgress, statusOverride, seed) ==
  LET s1 == [s EXCEPT !.world = createWorld(seed),
                      !.robotX = WORLD_WIDTH \div 2,
                      !.robotY = 0,
                      !.drillAim = "forward",
                      !.robotFacing = 1,
                      !.cargoValue = 0,
                      !.cargoUsed = 0,
                      !.cargoManifest = createEmptyCargoManifest,
                      !.stranded = FALSE,
                      !.paused = FALSE,
                      !.actionCooldownMs = 0,
                      !.depotPanel = NoDepot]
      s2 == IF ~keepProgress
            THEN persistProgress(
                   [s1 EXCEPT !.money = 0,
                              !.totalEarned = 0,
                              !.cargoLevel = 0,
                              !.drillLevel = 0,
                              !.fuelLevel = 0,
                              !.treadsLevel = 0,
                              !.status = IF statusOverride = ""
                                         THEN "Mars operation online. Dig smart."
                                         ELSE statusOverride])
            ELSE [s1 EXCEPT !.status = IF statusOverride = ""
                                       THEN "Fresh Martian shaft generated. Progress kept."
                                       ELSE statusOverride]
  IN [s2 EXCEPT !.fuel = getFuelCapacity(s2.fuelLevel)]

\* the reset of the progress without the fresh shaft
createNewProfile_keepsShaft(s, seed) ==
  persistProgress([s EXCEPT !.money = 0,
                            !.totalEarned = 0,
                            !.cargoLevel = 0,
                            !.drillLevel = 0,
                            !.fuelLevel = 0,
                            !.treadsLevel = 0,
                            !.status = "Profile reset. Fresh account online."])

createNewProfile(s, seed) ==
  startNewShaft(s, FALSE, "Profile reset. Fresh account online.", seed)

\* the effect on [activeProfile]: write the index, load the profile's
\* snapshot, start a shaft that keeps it
LoadProfileEffect(s, seed) ==
  LET s1 == [s EXCEPT !.storage.index = s.activeProfile]
      loadedProgress == sanitizeProgress(readProgress(s1.storage, s1.activeProfile))
      s2 == applyProgressSnapshot(s1, loadedProgress)
      hasSavedProgress ==
        \/ loadedProgress.money > 0
        \/ loadedProgress.totalEarned > 0
        \/ loadedProgress.cargoLevel > 0
        \/ loadedProgress.drillLevel > 0
        \/ loadedProgress.fuelLevel > 0
        \/ loadedProgress.treadsLevel > 0
  IN startNewShaft(s2, TRUE,
                   IF hasSavedProgress THEN "Loaded profile. Fresh shaft ready."
                   ELSE "Profile is new. Start digging.", seed)

\* switchProfile saving the profile it leaves before loading the other one
switchProfile_savesOnLeave(s, profileIndex, seed) ==
  IF profileIndex = s.activeProfile THEN s
  ELSE LET left == persistProgress(s) IN
       LoadProfileEffect(
         [left EXCEPT !.storage.index = profileIndex,
                      !.activeProfile = profileIndex], seed)

\* switchProfile(profileIndex), the re-render it causes (activeProfileRef
\* follows activeProfile) and the effect on [activeProfile]
switchProfile(s, profileIndex, seed) ==
  IF profileIndex = s.activeProfile THEN s
  ELSE LoadProfileEffect(
         [s EXCEPT !.storage.index = profileIndex,
                   !.activeProfile = profileIndex], seed)

\* the mount effects without the index-reading effect
MountEffects_ignoresIndex(s, seed) == LoadProfileEffect(s, seed)

\* the mount effects: the index-reading effect, the profile effect for the
\* initial activeProfile (0), and, when the saved index differs, the
\* re-render and the profile effect for it
MountEffects(s, seed) ==
  LET raw == IF s.storage.index = NoIndex THEN 0 ELSE s.storage.index
      savedProfileIndex == clamp(raw, 0, PROFILE_COUNT - 1)
      s1 == LoadProfileEffect(s, seed)
  IN IF savedProfileIndex = s1.activeProfile THEN s1
     ELSE LoadProfileEffect([s1 EXCEPT !.activeProfile = savedProfileIndex], seed)

(***************************************************************************)
(* Depot interaction                                                       *)
(***************************************************************************)
DepotX(depot) ==
  DEPOTS[CHOOSE i \in 1..Len(DEPOTS) : DEPOTS[i].id = depot].x

\* openDepot without the test for the surface row
openDepot_anyRow(s, depot) ==
  IF Abs(s.robotX - DepotX(depot)) > DEPOT_INTERACT_DISTANCE
  THEN [s EXCEPT !.status = "Move closer to the depot."]
  ELSE [s EXCEPT !.depotPanel = depot,
                 !.status = IF depot = "sell" THEN "Sell depot open."
                            ELSE IF depot = "fuel" THEN "Fuel depot open."
                            ELSE "Upgrade depot open."]

\* openDepot with the range test off by one
openDepot_offByOne(s, depot) ==
  IF s.robotY # 0
  THEN [s EXCEPT !.status = "Depots are only available on the surface."]
  ELSE IF Abs(s.robotX - DepotX(depot)) >= DEPOT_INTERACT_DISTANCE
  THEN [s EXCEPT !.status = "Move closer to the depot."]
  ELSE [s EXCEPT !.depotPanel = depot,
                 !.status = IF depot = "sell" THEN "Sell depot open."
                            ELSE IF depot = "fuel" THEN "Fuel depot open."
                            ELSE "Upgrade depot open."]

\* openDepot without the distance test
openDepot_anyColumn(s, depot) ==
  IF s.robotY # 0
  THEN [s EXCEPT !.status = "Depots are only available on the surface."]
  ELSE [s EXCEPT !.depotPanel = depot,
                 !.status = IF depot = "sell" THEN "Sell depot open."
                            ELSE IF depot = "fuel" THEN "Fuel depot open."
                            ELSE "Upgrade depot open."]

openDepot(s, depot) ==
  IF s.robotY # 0
  THEN [s EXCEPT !.status = "Depots are only available on the surface."]
  ELSE IF Abs(s.robotX - DepotX(depot)) > DEPOT_INTERACT_DISTANCE
  THEN [s EXCEPT !.status = "Move closer to the depot."]
  ELSE [s EXCEPT !.depotPanel = depot,
                 !.status = IF depot = "sell" THEN "Sell depot open."
                            ELSE IF depot = "fuel" THEN "Fuel depot open."
                            ELSE "Upgrade depot open."]

\* closeDepot without the test for an open panel
closeDepot_always(s) ==
  [s EXCEPT !.depotPanel = NoDepot, !.status = "Depot closed."]

closeDepot(s) ==
  IF s.depotPanel = NoDepot THEN s
  ELSE [s EXCEPT !.depotPanel = NoDepot, !.status = "Depot closed."]

triggerDepotAction(s) ==
  IF s.depotPanel # NoDepot THEN closeDepot(s)
  ELSE LET nearby == getNearbyDepotIdForPosition(s.robotX, s.robotY) IN
       IF nearby = NoDepot
       THEN [s EXCEPT !.status = "Move next to a surface depot and press Space."]
       ELSE openDepot(s, nearby)


(***************************************************************************)
(* The frame loop and the sprite loader                                    *)
(***************************************************************************)
NoKey == <<0, 0>>

\* the step dispatch of one animation frame: deltaMs is the clamped time
\* since the frame before, in hundredths of a millisecond, held the
\* direction whose key is down (NoKey when none is).  stepped tells whether
\* the frame called attemptStep, ret what the call returned.
frame(s, deltaMs, held) ==
  IF s.paused \/ s.stranded \/ s.depotPanel # NoDepot
  THEN [s |-> s, stepped |-> FALSE, ret |-> Null]
  ELSE LET remaining == IF s.actionCooldownMs > 0
                        THEN s.actionCooldownMs - deltaMs
                        ELSE s.actionCooldownMs
           s1 == [s EXCEPT !.actionCooldownMs = remaining]
       IN IF remaining <= 0 /\ held # NoKey
          THEN LET r == attemptStep(s1, held[1], held[2])
               IN [s |-> IF r.ret # Null
                         THEN [r.s EXCEPT !.actionCooldownMs = r.ret]
                         ELSE r.s,
                   stepped |-> TRUE,
                   ret |-> r.ret]
          ELSE [s |-> s1, stepped |-> FALSE, ret |-> Null]

\* the sprite loader's completion marking the status line too
onSpritesLoaded_reportsFallback(s, hasCoreSprites) ==
  IF hasCoreSprites THEN [s EXCEPT !.spriteLoadState = "ready"]
  ELSE [s EXCEPT !.spriteLoadState = "fallback",
                 !.renderMode = "procedural",
                 !.status = "Sprites missing. Procedural art in use."]

\* the completion of loadGemMinerSprites(); hasCoreSprites tells whether
\* every sprite of CORE_SPRITES was loaded
onSpritesLoaded(s, hasCoreSprites) ==
  IF hasCoreSprites THEN [s EXCEPT !.spriteLoadState = "ready"]
  ELSE [s EXCEPT !.spriteLoadState = "fallback",
                 !.renderMode = "procedural"]

\* the Visual button, disabled unless the sprites are ready
toggleRenderMode(s) ==
  IF s.spriteLoadState # "ready" THEN s
  ELSE [s EXCEPT !.renderMode = IF @ = "sprite" THEN "procedural" ELSE "sprite"]

(***************************************************************************)
(* State                                                                   *)
(***************************************************************************)
VARIABLES
  world,          \* worldRef
  robotX, robotY, \* robotXRef, robotYRef
  drillAim,       \* drillAimRef
  robotFacing,    \* robotFacingRef
  money, cargoValue, cargoUsed, cargoManifest, fuel, totalEarned,
  cargoLevel, drillLevel, fuelLevel, treadsLevel,
  status, stranded, paused,
  activeProfile,  \* activeProfile / activeProfileRef
  depotPanel,     \* depotPanel / depotPanelRef
  actionCooldownMs, \* actionCooldownMsRef, in hundredths of a millisecond
  spriteLoadState,  \* spriteLoadState
  renderMode,       \* renderMode
  highScore,      \* the highScore prop (currentHighScoreRef)
  highScores,     \* the hub's highScores state
  storage,        \* localStorage: the profile snapshots and the profile index
  mounted,        \* whether the mount effects have run
  reactState,     \* React: the activeProfile state, and the activeProfile the
                  \* profile effect last ran for
  shaftSeed,      \* the random source: the seed the next shaft is drawn from
  script,         \* the player's opening moves still to be played
  prev,           \* history: the state before the last operation
  lastOp,         \* history: the last operation, its arguments and result
  opCount         \* history: operations performed after the opening moves

progVars == <<world, robotX, robotY, drillAim, robotFacing, money, cargoValue,
              cargoUsed, cargoManifest, fuel, totalEarned, cargoLevel,
              drillLevel, fuelLevel, treadsLevel, status, stranded, paused,
              activeProfile, depotPanel, actionCooldownMs, spriteLoadState,
              renderMode, highScore, highScores, storage>>

vars == <<progVars, mounted, reactState, shaftSeed, script, prev, lastOp, opCount>>

\* the program state as one record, the form the operations take and return
Cur ==
  [world |-> world, robotX |-> robotX, robotY |-> robotY,
   drillAim |-> drillAim, robotFacing |-> robotFacing, money |-> money,
   cargoValue |-> cargoValue, cargoUsed |-> cargoUsed,
   cargoManifest |-> cargoManifest, fuel |-> fuel,
   totalEarned |-> totalEarned, cargoLevel |-> cargoLevel,
   drillLevel |-> drillLevel, fuelLevel |-> fuelLevel,
   treadsLevel |-> treadsLevel, status |-> status, stranded |-> stranded,
   paused |-> paused, activeProfile |-> activeProfile,
   depotPanel |-> depotPanel, actionCooldownMs |-> actionCooldownMs,
   spriteLoadState |-> spriteLoadState, renderMode |-> renderMode,
   highScore |-> highScore, highScores |-> highScores, storage |-> storage]

Becomes(s) ==
  /\ world' = s.world
  /\ robotX' = s.robotX
  /\ robotY' = s.robotY
  /\ drillAim' = s.drillAim
  /\ robotFacing' = s.robotFacing
  /\ money' = s.money
  /\ cargoValue' = s.cargoValue
  /\ cargoUsed' = s.cargoUsed
  /\ cargoManifest' = s.cargoManifest
  /\ fuel' = s.fuel
  /\ totalEarned' = s.totalEarned
  /\ cargoLevel' = s.cargoLevel
  /\ drillLevel' = s.drillLevel
  /\ fuelLevel' = s.fuelLevel
  /\ treadsLevel' = s.treadsLevel
  /\ status' = s.status
  /\ stranded' = s.stranded
  /\ paused' = s.paused
  /\ activeProfile' = s.activeProfile
  /\ depotPanel' = s.depotPanel
  /\ actionCooldownMs' = s.actionCooldownMs
  /\ spriteLoadState' = s.spriteLoadState
  /\ renderMode' = s.renderMode
  /\ highScore' = s.highScore
  /\ highScores' = s.highScores
  /\ storage' = s.storage

Op(name, id, dx, dy, req, ret) ==
  [name |-> name, id |-> id, dx |-> dx, dy |-> dy, req |-> req, ret |-> ret]

(***************************************************************************)
(* The player.  A session opens with a script of moves -- mount, walk      *)
(* along the surface, dig down one column (with an emergency tow whenever  *)
(* stranded), climb out, press the action key -- each played through the   *)
(* handlers above; after the script the player is free, for MaxOps         *)
(* operations.                                                             *)
(***************************************************************************)
Move(m, n) == [m |-> m, n |-> n]

Refused(s, dx, dy) ==
  LET r == attemptStep(s, dx, dy).s IN r.robotX = s.robotX /\ r.robotY = s.robotY

\* the move has nothing left to do in state s
Completed(mv, s) ==
  IF mv.m = "walk" THEN mv.n = 0
  ELSE IF mv.m = "dig"
  THEN ~s.stranded /\ (s.robotY >= mv.n \/ Refused(s, 0, 1))
  ELSE IF mv.m = "digLow"
  THEN s.stranded \/ s.fuel <= mv.n \/ Refused(s, 0, 1)
  ELSE IF mv.m = "climb"
  THEN s.robotY = 0 \/ Refused(s, 0, -1)
  ELSE mv.n = 0

RECURSIVE Normalize(_, _)
\* the script without the moves already completed at its head
Normalize(sc, s) ==
  IF sc = <<>> THEN sc
  ELSE IF Completed(Head(sc), s) THEN Normalize(Tail(sc), s)
  ELSE sc

\* the operation the head of the script asks for in state s
Planned(sc, s) ==
  LET mv == Head(sc) IN
  IF mv.m = "mount" THEN [name |-> "mount", dx |-> 0, dy |-> 0]
  ELSE IF mv.m = "walk"
  THEN [name |-> "attemptStep", dx |-> IF mv.n < 0 THEN -1 ELSE 1, dy |-> 0]
  ELSE IF mv.m = "dig"
  THEN IF s.stranded THEN [name |-> "emergencyTow", dx |-> 0, dy |-> 0]
       ELSE [name |-> "attemptStep", dx |-> 0, dy |-> 1]
  ELSE IF mv.m = "digLow" THEN [name |-> "attemptStep", dx |-> 0, dy |-> 1]
  ELSE IF mv.m = "climb" THEN [name |-> "attemptStep", dx |-> 0, dy |-> -1]
  ELSE [name |-> "triggerDepotAction", dx |-> 0, dy |-> 0]

\* the script after one operation of its head move
Played(sc) ==
  LET mv == Head(sc) IN
  IF mv.m = "walk"
  THEN <<Move("walk", IF mv.n < 0 THEN mv.n + 1 ELSE mv.n - 1)>> \o Tail(sc)
  ELSE IF mv.m \in {"mount", "action"} THEN <<Move(mv.m, 0)>> \o Tail(sc)
  ELSE sc

\* the component of state s once rendered and its effects run
Rendered(s) == [activeProfile |-> s.activeProfile, effectDeps |-> s.activeProfile]

\* no render and no profile effect is outstanding: the ref holds the
\* activeProfile state (571) and the profile effect has run for it
Settled ==
  /\ reactState.activeProfile = activeProfile
  /\ reactState.effectDeps = activeProfile

\* one operation: the handler takes the state to s.  While the script
\* lasts, the operation is the one it asks for.  Outside the split
\* specification the render and the effects an operation causes are part
\* of its step.
Did(s, op) ==
  /\ IF script = <<>>
     THEN /\ opCount < MaxOps
          /\ opCount' = opCount + 1
          /\ script' = script
     ELSE /\ LET plan == Planned(script, Cur) IN
               op.name = plan.name /\ op.dx = plan.dx /\ op.dy = plan.dy
          /\ opCount' = opCount
          /\ script' = Normalize(Played(script), s)
  /\ reactState' = IF mounted /\ ~Settled THEN reactState ELSE Rendered(s)
  /\ Becomes(s)
  /\ prev' = Cur
  /\ lastOp' = op

(***************************************************************************)
(* Initial sessions: the component as constructed, over what the store     *)
(* holds, the hub's best score and the random source.                      *)
(***************************************************************************)
Snap(m, te, c, d, f, t) ==
  Saved([money |-> m, totalEarned |-> te, cargoLevel |-> c, drillLevel |-> d,
         fuelLevel |-> f, treadsLevel |-> t])

\* stored snapshots: a beginner one coin short of the first drill upgrade, a
\* veteran with one upgrade left to buy, a hand-edited record out of range,
\* a well-equipped rig with drill level d
Poor(m) == Snap(m, 120, 0, 0, 0, 0)
Rookie == Poor(84)
Veteran == Snap(9000, 9500, 11, 11, 11, 10)
Corrupt == Snap(-5, -7, 99, -3, 12, 4)
Driller(d) == Snap(400, 900, 11, d, 11, 0)
\* a large tank and a stone-cutting drill over the smallest hold
Hauler == Snap(400, 900, 0, 5, 11, 0)

Store(p0, index) ==
  [profiles |-> [p \in 0..(PROFILE_COUNT - 1) |->
                   IF p = 0 THEN p0 ELSE IF p = 1 THEN Veteran ELSE Corrupt],
   index |-> index]

EmptyStore ==
  [profiles |-> [p \in 0..(PROFILE_COUNT - 1) |-> NoSave], index |-> NoIndex]

Session(store, best, seed, moves) ==
  [store |-> store, best |-> best, seed |-> seed,
   script |-> <<Move("mount", 1)>> \o moves]

\* a short trip underground and back
Trip == <<Move("dig", 4), Move("climb", 0)>>

Sessions ==
  { Session(EmptyStore, 0, 18, <<>>),
    Session(Store(Rookie, 1), 200, 18, <<Move("walk", 7), Move("action", 1)>>),
    Session(Store(Rookie, 7), 9500, 18, <<>>),
    Session(Store(Rookie, 0), 200, 37, Trip \o <<Move("walk", 7), Move("action", 1)>>),
    Session(Store(Rookie, 0), 200, 37, Trip \o <<Move("walk", -7), Move("action", 1)>>),
    Session(Store(Rookie, 0), 159, 37, Trip \o <<Move("walk", -7), Move("action", 1)>>),
    Session(Store(Rookie, 0), 158, 37, Trip \o <<Move("walk", -7), Move("action", 1)>>),
    Session(Store(Rookie, 0), 200, 37, Trip \o <<Move("action", 1)>>),
    Session(Store(Poor(5), 0), 200, 37, Trip \o <<Move("action", 1)>>),
    Session(Store(Poor(1), 0), 200, 37, Trip \o <<Move("action", 1)>>),
    Session(Store(Rookie, 0), 200, 37, <<Move("digLow", 0)>>),
    Session(Store(Driller(4), 0), 900, 18, <<Move("dig", 39)>>),
    Session(Store(Driller(5), 0), 900, 18, <<Move("dig", 39)>>),
    Session(Store(Driller(7), 0), 900, 37, <<Move("dig", 104)>>),
    Session(Store(Driller(8), 0), 900, 37, <<Move("dig", 104)>>),
    Session(Store(Driller(10), 0), 900, 18, <<Move("dig", 189)>>),
    Session(Store(Driller(11), 0), 900, 18, <<Move("dig", 189)>>),
    Session(EmptyStore, 0, 62, <<>>),
    Session(Store(Hauler, 0), 900, 62, <<Move("dig", 200)>>) }

\* the seed of the shaft after the one drawn from seed
NextSeed(seed) == (seed + 41) % 100

NoOp == Op("init", "", 0, 0, NoRequest, Null)

Init ==
  \E ss \in Sessions :
    LET s == Constructed(ss.store, ss.best, ss.seed)
    IN /\ world = s.world
       /\ robotX = s.robotX
       /\ robotY = s.robotY
       /\ drillAim = s.drillAim
       /\ robotFacing = s.robotFacing
       /\ money = s.money
       /\ cargoValue = s.cargoValue
       /\ cargoUsed = s.cargoUsed
       /\ cargoManifest = s.cargoManifest
       /\ fuel = s.fuel
       /\ totalEarned = s.totalEarned
       /\ cargoLevel = s.cargoLevel
       /\ drillLevel = s.drillLevel
       /\ fuelLevel = s.fuelLevel
       /\ treadsLevel = s.treadsLevel
       /\ status = s.status
       /\ stranded = s.stranded
       /\ paused = s.paused
       /\ activeProfile = s.activeProfile
       /\ depotPanel = s.depotPanel
       /\ actionCooldownMs = s.actionCooldownMs
       /\ spriteLoadState = s.spriteLoadState
       /\ renderMode = s.renderMode
       /\ highScore = s.highScore
       /\ highScores = s.highScores
       /\ storage = s.storage
       /\ mounted = FALSE
       /\ reactState = [activeProfile |-> s.activeProfile, effectDeps |-> Null]
       /\ shaftSeed = ss.seed
       /\ script = ss.script
       /\ prev = s
       /\ lastOp = NoOp
       /\ opCount = 0

(***************************************************************************)
(* Actions: one per handler                                                *)
(***************************************************************************)
Directions == {<<-1, 0>>, <<1, 0>>, <<0, 1>>, <<0, -1>>}

\* requestedUnits, in tenths (the handler takes any number): a negative
\* count, 2.5 units, 10 units
RefuelRequests == {NoRequest, Request(-10), Request(25), Request(100)}

\* the mount effects; the shaft of the mounted session is drawn from shaftSeed
Mount ==
  /\ ~mounted
  /\ mounted' = TRUE
  /\ shaftSeed' = NextSeed(shaftSeed)
  /\ Did(MountEffects(Cur, shaftSeed), Op("mount", "", 0, 0, NoRequest, Null))

\* a touch-control button: attemptStep called from its click handler
Step ==
  /\ mounted
  /\ \E d \in Directions :
       LET r == attemptStep(Cur, d[1], d[2]) IN
       Did(r.s, Op("attemptStep", "", d[1], d[2], NoRequest, r.ret))
  /\ UNCHANGED <<mounted, shaftSeed>>

Sell ==
  /\ mounted
  /\ Did(sellCargo(Cur), Op("sellCargo", "", 0, 0, NoRequest, Null))
  /\ UNCHANGED <<mounted, shaftSeed>>

Refuel ==
  /\ mounted
  /\ \E req \in RefuelRequests :
       Did(refuelAtDepot(Cur, req), Op("refuelAtDepot", "", 0, 0, req, Null))
  /\ UNCHANGED <<mounted, shaftSeed>>

Upgrade ==
  /\ mounted
  /\ \E id \in UpgradeIds :
       Did(purchaseUpgrade(Cur, id), Op("purchaseUpgrade", id, 0, 0, NoRequest, Null))
  /\ UNCHANGED <<mounted, shaftSeed>>

Tow ==
  /\ mounted
  /\ Did(emergencyTow(Cur), Op("emergencyTow", "", 0, 0, NoRequest, Null))
  /\ UNCHANGED <<mounted, shaftSeed>>

Pause ==
  /\ mounted
  /\ Did(togglePause(Cur), Op("togglePause", "", 0, 0, NoRequest, Null))
  /\ UNCHANGED <<mounted, shaftSeed>>

OpenDepot ==
  /\ mounted
  /\ \E id \in DepotIds :
       Did(openDepot(Cur, id), Op("openDepot", id, 0, 0, NoRequest, Null))
  /\ UNCHANGED <<mounted, shaftSeed>>

CloseDepot ==
  /\ mounted
  /\ Did(closeDepot(Cur), Op("closeDepot", "", 0, 0, NoRequest, Null))
  /\ UNCHANGED <<mounted, shaftSeed>>

DepotAction ==
  /\ mounted
  /\ Did(triggerDepotAction(Cur), Op("triggerDepotAction", "", 0, 0, NoRequest, Null))
  /\ UNCHANGED <<mounted, shaftSeed>>

\* the R key and the New Shaft button: startNewShaft(true)
NewShaft ==
  /\ mounted
  /\ Did(startNewShaft(Cur, TRUE, "", shaftSeed),
         Op("startNewShaft", "", 0, 0, NoRequest, Null))
  /\ shaftSeed' = NextSeed(shaftSeed)
  /\ UNCHANGED mounted

NewProfile ==
  /\ mounted
  /\ Did(createNewProfile(Cur, shaftSeed),
         Op("createNewProfile", "", 0, 0, NoRequest, Null))
  /\ shaftSeed' = NextSeed(shaftSeed)
  /\ UNCHANGED mounted

SwitchProfile ==
  /\ mounted
  /\ \E p \in 0..(PROFILE_COUNT - 1) :
       Did(switchProfile(Cur, p, shaftSeed),
           Op("switchProfile", "", p, 0, NoRequest, Null))
  /\ shaftSeed' = NextSeed(shaftSeed)
  /\ UNCHANGED mounted

\* the frame time: the maximum the loop clamps it to (64 ms)
FrameDeltas == {6400}

\* one animation frame with the direction key held (or none) during it
Frame ==
  /\ mounted
  /\ script = <<>>
  /\ \E deltaMs \in FrameDeltas, held \in Directions \cup {NoKey} :
       LET f == frame(Cur, deltaMs, held) IN
       IF f.stepped
       THEN Did(f.s, Op("attemptStep", "key", held[1], held[2], NoRequest, f.ret))
       ELSE /\ f.s # Cur
            /\ Becomes(f.s)
            /\ prev' = Cur
            /\ lastOp' = Op("frame", "", 0, 0, NoRequest, Null)
            /\ UNCHANGED <<script, opCount, reactState>>
  /\ UNCHANGED <<mounted, shaftSeed>>

\* the promise of loadGemMinerSprites() resolves
SpriteLoad ==
  /\ mounted
  /\ spriteLoadState = "loading"
  /\ \E hasCoreSprites \in BOOLEAN :
       Did(onSpritesLoaded(Cur, hasCoreSprites),
           Op("spriteLoad", "", 0, 0, NoRequest, Null))
  /\ UNCHANGED <<mounted, shaftSeed>>

ToggleVisual ==
  /\ mounted
  /\ Did(toggleRenderMode(Cur), Op("toggleRenderMode", "", 0, 0, NoRequest, Null))
  /\ UNCHANGED <<mounted, shaftSeed>>

Next ==
  \/ Mount
  \/ Step
  \/ Sell
  \/ Refuel
  \/ Upgrade
  \/ Tow
  \/ Pause
  \/ OpenDepot
  \/ CloseDepot
  \/ DepotAction
  \/ NewShaft
  \/ NewProfile
  \/ SwitchProfile

Spec == Init /\ [][Next]_vars

(***************************************************************************)
(* The input surface in real time: the touch buttons, the direction keys   *)
(* read by the frame loop, the frames that let the cooldown run out, and   *)
(* the sprite loader finishing at any moment.  Sessions: a new player, and *)
(* the beginner fresh, back from a short trip, and stranded.               *)
(***************************************************************************)
InputInit ==
  /\ Init
  /\ storage \in {EmptyStore, Store(Rookie, 0)}

InputNext ==
  \/ Mount
  \/ Step
  \/ Frame
  \/ Pause
  \/ NewShaft
  \/ SpriteLoad
  \/ ToggleVisual

SpecInput == InputInit /\ [][InputNext]_vars

(***************************************************************************)
(* The world generator on its own: one draw of pickTileByDepth for every   *)
(* depth below the surface row and every roll, recorded in lastOp as       *)
(* (dx, dy) = (depth, roll) and id = the tile drawn; a behaviour is one    *)
(* draw.                                                                   *)
(***************************************************************************)
Rolls == 0..99

TilesInit ==
  /\ Init
  /\ storage = EmptyStore
  /\ shaftSeed = 18

PickTile ==
  /\ lastOp = NoOp
  /\ \E depth \in 1..(WORLD_HEIGHT - 1), roll \in Rolls :
       lastOp' = Op("pickTileByDepth", pickTileByDepth(depth, roll),
                    depth, roll, NoRequest, Null)
  /\ UNCHANGED <<progVars, mounted, reactState, shaftSeed, script, prev, opCount>>

TilesNext == PickTile

SpecTiles == TilesInit /\ [][TilesNext]_vars

(***************************************************************************)
(* The earlier variant of the component kept in the same file (a world of  *)
(* 110 rows, five ores).  Only what differs from the component above is    *)
(* written again; getCargoCapacity, getFuelCapacity, getMoveDelayMs,       *)
(* clamp, setStrandedIfNeeded, spendFuel, handleSurfaceDock and the        *)
(* persistence functions read the same in both.                            *)
(***************************************************************************)
Earlier_WORLD_HEIGHT == 110
Earlier_MAX_UPGRADE_LEVEL == 30
Earlier_ROCK_DRILL_POWER_REQUIRED == 2

Earlier_CARGO_TYPES == <<"coal", "copper", "silver", "gold", "ruby">>
Earlier_CargoTypeSet == {Earlier_CARGO_TYPES[i] : i \in 1..Len(Earlier_CARGO_TYPES)}

Earlier_TILE_DEFS ==
  [dirt   |-> [value |-> 4,   hardness10 |-> 10],
   rock   |-> [value |-> 8,   hardness10 |-> 20],
   coal   |-> [value |-> 14,  hardness10 |-> 16],
   copper |-> [value |-> 24,  hardness10 |-> 25],
   silver |-> [value |-> 42,  hardness10 |-> 30],
   gold   |-> [value |-> 74,  hardness10 |-> 38],
   ruby   |-> [value |-> 130, hardness10 |-> 46]]

Earlier_createEmptyCargoManifest ==
  [t \in Earlier_CargoTypeSet |-> [count |-> 0, value |-> 0]]

\* pickTileByDepth of the earlier variant, roll in hundredths
Earlier_pickTileByDepth(depth, roll) ==
  IF depth < 10 THEN
    IF roll < 74 THEN "dirt" ELSE IF roll < 92 THEN "rock" ELSE "coal"
  ELSE IF depth < 22 THEN
    IF roll < 46 THEN "dirt" ELSE IF roll < 66 THEN "rock"
    ELSE IF roll < 82 THEN "coal" ELSE "copper"
  ELSE IF depth < 40 THEN
    IF roll < 30 THEN "dirt" ELSE IF roll < 53 THEN "rock"
    ELSE IF roll < 67 THEN "coal" ELSE IF roll < 88 THEN "copper" ELSE "silver"
  ELSE IF depth < 68 THEN
    IF roll < 28 THEN "rock" ELSE IF roll < 40 THEN "coal"
    ELSE IF roll < 65 THEN "copper" ELSE IF roll < 86 THEN "silver" ELSE "gold"
  ELSE
    IF roll < 24 THEN "rock" ELSE IF roll < 45 THEN "copper"
    ELSE IF roll < 66 THEN "silver" ELSE IF roll < 88 THEN "gold" ELSE "ruby"

\* worldRef.current[y][x] of the earlier variant
Earlier_TileAt(grid, x, y) ==
  IF y = 0 \/ <<x, y>> \in grid.mined THEN "empty"
  ELSE Earlier_pickTileByDepth(y, RollAt(grid.seed, x, y))

\* getDrillPower(level) = 1 + level * 0.6, in tenths
Earlier_getDrillPower10(level) == 10 + 6 * level

Earlier_sanitizeProgress(value) ==
  [money       |-> Max(0, value.money),
   totalEarned |-> Max(0, value.totalEarned),
   cargoLevel  |-> clamp(value.cargoLevel, 0, Earlier_MAX_UPGRADE_LEVEL),
   drillLevel  |-> clamp(value.drillLevel, 0, Earlier_MAX_UPGRADE_LEVEL),
   fuelLevel   |-> clamp(value.fuelLevel, 0, Earlier_MAX_UPGRADE_LEVEL),
   treadsLevel |-> clamp(value.treadsLevel, 0, Earlier_MAX_UPGRADE_LEVEL)]

\* the earlier component after construction
Earlier_Constructed(store, best, seed) ==
  [Constructed(store, best, seed) EXCEPT
     !.cargoManifest = Earlier_createEmptyCargoManifest,
     !.status = "Touch down and start digging."]

Earlier_startNewShaft(s, keepProgress, statusOverride, seed) ==
  LET s1 == [s EXCEPT !.world = createWorld(seed),
                      !.robotX = WORLD_WIDTH \div 2,
                      !.robotY = 0,
                      !.robotFacing = 1,
                      !.actionCooldownMs = 0,
                      !.cargoValue = 0,
                      !.cargoUsed = 0,
                      !.cargoManifest = Earlier_createEmptyCargoManifest,
                      !.stranded = FALSE,
                      !.paused = FALSE,
                      !.depotPanel = NoDepot]
      s2 == IF ~keepProgress
            THEN persistProgress(
                   [s1 EXCEPT !.money = 0,
                              !.totalEarned = 0,
                              !.cargoLevel = 0,
                              !.drillLevel = 0,
                              !.fuelLevel = 0,
                              !.treadsLevel = 0,
                              !.status = IF statusOverride = ""
                                         THEN "New operation online. Dig smart."
                                         ELSE statusOverride])
            ELSE [s1 EXCEPT !.status = IF statusOverride = ""
                                       THEN "Fresh shaft generated. Progress kept."
                                       ELSE statusOverride]
  IN [s2 EXCEPT !.fuel = getFuelCapacity(s2.fuelLevel)]

\* the effect on [activeProfile] of the earlier variant
Earlier_LoadProfileEffect(s, seed) ==
  LET s1 == [s EXCEPT !.storage.index = s.activeProfile]
      loadedProgress ==
        Earlier_sanitizeProgress(readProgress(s1.storage, s1.activeProfile))
      s2 == applyProgressSnapshot(s1, loadedProgress)
      hasSavedProgress ==
        \/ loadedProgress.money > 0
        \/ loadedProgress.totalEarned > 0
        \/ loadedProgress.cargoLevel > 0
        \/ loadedProgress.drillLevel > 0
        \/ loadedProgress.fuelLevel > 0
        \/ loadedProgress.treadsLevel > 0
  IN Earlier_startNewShaft(s2, TRUE,
                           IF hasSavedProgress THEN "Loaded profile. Fresh shaft ready."
                           ELSE "Profile is new. Start digging.", seed)

\* the mount effects of the earlier variant
Earlier_MountEffects(s, seed) ==
  LET raw == IF s.storage.index = NoIndex THEN 0 ELSE s.storage.index
      savedProfileIndex == clamp(raw, 0, PROFILE_COUNT - 1)
      s1 == Earlier_LoadProfileEffect(s, seed)
  IN IF savedProfileIndex = s1.activeProfile THEN s1
     ELSE Earlier_LoadProfileEffect(
            [s1 EXCEPT !.activeProfile = savedProfileIndex], seed)

\* attemptStep of the earlier variant
Earlier_attemptStep(s, dx, dy) ==
  IF s.paused \/ s.stranded \/ s.depotPanel # NoDepot
  THEN [s |-> s, ret |-> Null]
  ELSE
  LET nextX == s.robotX + dx
      nextY == s.robotY + dy
  IN
  IF nextX < 0 \/ nextX >= WORLD_WIDTH \/ nextY < 0 \/ nextY >= Earlier_WORLD_HEIGHT
  THEN [s |-> s, ret |-> Null]
  ELSE
  LET targetTile == Earlier_TileAt(s.world, nextX, nextY)
      moveDelayMs == getMoveDelayMs(s.treadsLevel)
      s2 == [s EXCEPT !.robotFacing = IF dx < 0 THEN -1
                                      ELSE IF dx > 0 THEN 1 ELSE @]
      canCoastAtSurface == s.robotY = 0 /\ nextY = 0 /\ targetTile = "empty"
  IN
  IF s2.fuel <= 0 /\ ~canCoastAtSurface
  THEN [s |-> setStrandedIfNeeded(s2), ret |-> Null]
  ELSE IF targetTile = "empty"
  THEN LET s3 == [s2 EXCEPT !.robotX = nextX, !.robotY = nextY]
           s4 == IF ~(s3.robotY = 0 /\ nextY = 0) THEN spendFuel(s3, 1) ELSE s3
       IN [s |-> handleSurfaceDock(s4), ret |-> 100 * moveDelayMs]
  ELSE
  LET isSellableOre == targetTile # "dirt" /\ targetTile # "rock"
      capacity == getCargoCapacity(s.cargoLevel)
      tileDef == Earlier_TILE_DEFS[targetTile]
      drillPower10 == Earlier_getDrillPower10(s.drillLevel)
  IN
  IF isSellableOre /\ s.cargoUsed >= capacity
  THEN [s |-> [s2 EXCEPT !.status = "Cargo full. Return to the surface to sell."],
        ret |-> Max(6000, moveDelayMs * 50)]
  ELSE IF targetTile = "rock" /\ drillPower10 < 10 * Earlier_ROCK_DRILL_POWER_REQUIRED
  THEN [s |-> [s2 EXCEPT !.status = "Rock requires 2.0x drill power."],
        ret |-> Max(9000, moveDelayMs * 70)]
  ELSE
  LET minedValue == RoundDiv(tileDef.value * (95 + nextY), 95)
      s3 == [s2 EXCEPT !.world = SetEmpty(@, nextX, nextY),
                       !.robotX = nextX,
                       !.robotY = nextY]
      s4 == IF isSellableOre
            THEN [s3 EXCEPT !.cargoUsed = @ + 1,
                            !.cargoValue = @ + minedValue,
                            !.cargoManifest[targetTile].count = @ + 1,
                            !.cargoManifest[targetTile].value = @ + minedValue]
            ELSE s3
      fuelCost == Max(1, RoundDiv(tileDef.hardness10 * 115, 1000))
      s5 == spendFuel(s4, fuelCost)
      s6 == [s5 EXCEPT !.status = IF isSellableOre THEN "Mined ore."
                                  ELSE IF targetTile = "rock"
                                  THEN "Drilled through rock."
                                  ELSE "Plowed through dirt."]
  IN [s |-> handleSurfaceDock(s6),
      ret |-> 100 * Max(65, RoundDiv(95 * drillPower10 + tileDef.hardness10 * 185,
                                     drillPower10))]

\* emergencyTow of the earlier variant: the totals are scaled, the manifest
\* is not touched
Earlier_emergencyTow(s) ==
  IF ~s.stranded THEN s
  ELSE LET s1 == [s EXCEPT !.depotPanel = NoDepot,
                           !.cargoUsed = TowFloor(@),
                           !.cargoValue = TowFloor(@),
                           !.robotY = 0,
                           !.fuel = getFuelCapacity(s.fuelLevel),
                           !.stranded = FALSE,
                           !.status = "Emergency tow complete. Some cargo was damaged."]
       IN handleSurfaceDock(s1)

\* a stored snapshot of the earlier variant: a drill that cuts rock over the
\* smallest tank
Digger == Snap(400, 900, 3, 2, 0, 0)

\* the earlier component constructed over a store holding Digger; the
\* player mounts, digs straight down until stranded or stopped, and is then
\* free
EarlierInit ==
  \E seed \in {18, 37} :
    LET s == Earlier_Constructed(Store(Digger, 0), 900, seed)
    IN /\ world = s.world
       /\ robotX = s.robotX
       /\ robotY = s.robotY
       /\ drillAim = s.drillAim
       /\ robotFacing = s.robotFacing
       /\ money = s.money
       /\ cargoValue = s.cargoValue
       /\ cargoUsed = s.cargoUsed
       /\ cargoManifest = s.cargoManifest
       /\ fuel = s.fuel
       /\ totalEarned = s.totalEarned
       /\ cargoLevel = s.cargoLevel
       /\ drillLevel = s.drillLevel
       /\ fuelLevel = s.fuelLevel
       /\ treadsLevel = s.treadsLevel
       /\ status = s.status
       /\ stranded = s.stranded
       /\ paused = s.paused
       /\ activeProfile = s.activeProfile
       /\ depotPanel = s.depotPanel
       /\ actionCooldownMs = s.actionCooldownMs
       /\ spriteLoadState = s.spriteLoadState
       /\ renderMode = s.renderMode
       /\ highScore = s.highScore
       /\ highScores = s.highScores
       /\ storage = s.storage
       /\ mounted = FALSE
       /\ reactState = [activeProfile |-> s.activeProfile, effectDeps |-> Null]
       /\ shaftSeed = seed
       /\ script = <<Move("mount", 1), Move("digLow", 0)>>
       /\ prev = s
       /\ lastOp = NoOp
       /\ opCount = 0

\* one operation of the earlier component; while the script lasts the
\* operation is the one it asks for
EarlierDid(s, op) ==
  /\ IF script = <<>>
     THEN /\ opCount < MaxOps
          /\ opCount' = opCount + 1
          /\ script' = script
     ELSE /\ IF Head(script).m = "mount" THEN op.name = "mount"
             ELSE op.name = "attemptStep" /\ op.dx = 0 /\ op.dy = 1
          /\ opCount' = opCount
          /\ script' =
               IF Head(script).m = "mount" THEN Tail(script)
               ELSE IF s.stranded \/ (s.robotX = robotX /\ s.robotY = robotY) THEN <<>>
               ELSE script
  /\ reactState' = Rendered(s)
  /\ Becomes(s)
  /\ prev' = Cur
  /\ lastOp' = op

EarlierMount ==
  /\ ~mounted
  /\ mounted' = TRUE
  /\ shaftSeed' = NextSeed(shaftSeed)
  /\ EarlierDid(Earlier_MountEffects(Cur, shaftSeed),
                Op("mount", "", 0, 0, NoRequest, Null))

EarlierStep ==
  /\ mounted
  /\ \E d \in Directions :
       LET r == Earlier_attemptStep(Cur, d[1], d[2]) IN
       EarlierDid(r.s, Op("attemptStep", "", d[1], d[2], NoRequest, r.ret))
  /\ UNCHANGED <<mounted, shaftSeed>>

EarlierTow ==
  /\ mounted
  /\ EarlierDid(Earlier_emergencyTow(Cur),
                Op("emergencyTow", "", 0, 0, NoRequest, Null))
  /\ UNCHANGED <<mounted, shaftSeed>>

EarlierNewShaft ==
  /\ mounted
  /\ EarlierDid(Earlier_startNewShaft(Cur, TRUE, "", shaftSeed),
                Op("startNewShaft", "", 0, 0, NoRequest, Null))
  /\ shaftSeed' = NextSeed(shaftSeed)
  /\ UNCHANGED mounted

EarlierNext ==
  \/ EarlierMount
  \/ EarlierStep
  \/ EarlierTow
  \/ EarlierNewShaft

SpecEarlier == EarlierInit /\ [][EarlierNext]_vars

(***************************************************************************)
(* The profile switch in its three steps: the click handler, the render    *)
(* that follows the state change, and the profile effect React runs after  *)
(* the commit.  Input events may arrive between them.                      *)
(***************************************************************************)
\* switchProfile(profileIndex): the handler alone; requested is the value
\* handed to setActiveProfile, Null when the handler returns early
switchProfileHandler(s, profileIndex) ==
  IF profileIndex = s.activeProfile
  THEN [s |-> s, requested |-> Null]
  ELSE [s |-> [s EXCEPT !.storage.index = profileIndex], requested |-> profileIndex]

\* the component body run again: activeProfileRef.current = activeProfile
renderComponent(s, activeProfileState) ==
  [s EXCEPT !.activeProfile = activeProfileState]

\* one step of the split specification taking the component to s and React
\* to rs; a step of the player counts as an operation, a step of React does
\* not
Posted(s, op, rs, counted) ==
  /\ script = <<>>
  /\ IF counted THEN opCount < MaxOps /\ opCount' = opCount + 1
     ELSE opCount' = opCount
  /\ script' = script
  /\ reactState' = rs
  /\ Becomes(s)
  /\ prev' = Cur
  /\ lastOp' = op

SwitchClick ==
  /\ mounted
  /\ \E p \in 0..(PROFILE_COUNT - 1) :
       LET h == switchProfileHandler(Cur, p) IN
       Posted(h.s, Op("switchProfileClick", "", p, 0, NoRequest, Null),
              IF h.requested = Null THEN reactState
              ELSE [reactState EXCEPT !.activeProfile = h.requested],
              TRUE)
  /\ UNCHANGED <<mounted, shaftSeed>>

Render ==
  /\ mounted
  /\ reactState.activeProfile # activeProfile
  /\ Posted(renderComponent(Cur, reactState.activeProfile),
            Op("render", "", 0, 0, NoRequest, Null), reactState, FALSE)
  /\ UNCHANGED <<mounted, shaftSeed>>

ProfileEffect ==
  /\ mounted
  /\ reactState.activeProfile = activeProfile
  /\ reactState.effectDeps # activeProfile
  /\ Posted(LoadProfileEffect(Cur, shaftSeed),
            Op("profileEffect", "", 0, 0, NoRequest, Null),
            [reactState EXCEPT !.effectDeps = activeProfile], FALSE)
  /\ shaftSeed' = NextSeed(shaftSeed)
  /\ UNCHANGED mounted

ProfilesInit ==
  /\ Init
  /\ highScore = 200
  /\ storage \in {Store(Rookie, 0), Store(Rookie, 1)}

ProfilesNext ==
  \/ Mount
  \/ Step
  \/ DepotAction
  \/ Sell
  \/ Refuel
  \/ Upgrade
  \/ NewProfile
  \/ SwitchClick
  \/ Render
  \/ ProfileEffect

SpecProfiles == ProfilesInit /\ [][ProfilesNext]_vars

(***************************************************************************)
(* Properties.  prev is the state before the last operation and lastOp the *)
(* operation with its arguments, so a property of one operation is a state *)
(* predicate relating prev to the current state.                           *)
(***************************************************************************)
Levels(s) == <<s.cargoLevel, s.drillLevel, s.fuelLevel, s.treadsLevel>>
Cargo(s) == <<s.cargoUsed, s.cargoValue, s.cargoManifest>>
Position(s) == <<s.robotX, s.robotY>>

\* the cell the last step aimed at
TargetX == prev.robotX + lastOp.dx
TargetY == prev.robotY + lastOp.dy
TargetInBounds ==
  TargetX >= 0 /\ TargetX < WORLD_WIDTH /\ TargetY >= 0 /\ TargetY < WORLD_HEIGHT

\* C1: in every reachable state cargoUsed is the sum of the twelve manifest
\* counts and cargoValue the sum of the twelve manifest values.
Thm_C1 ==
  /\ cargoUsed = SumCount(cargoManifest, Len(CARGO_TYPES))
  /\ cargoValue = SumValue(cargoManifest, Len(CARGO_TYPES))

\* a tow has just damaged a hold in which some count was not a multiple of 5
Wit_C1 ==
  /\ lastOp.name = "emergencyTow"
  /\ prev.stranded
  /\ cargoUsed > 0
  /\ \E c \in CargoTypeSet : prev.cargoManifest[c].count % TowDen # 0

\* C2: in every reachable state 0 <= fuel <= 90 + 30 * fuelLevel, money >= 0
\* and each of the four upgrade levels lies in 0..11.
Thm_C2 ==
  /\ 0 <= fuel
  /\ fuel <= 90 + 30 * fuelLevel
  /\ money >= 0
  /\ \A i \in 1..4 : Levels(Cur)[i] \in 0..11

\* a refuel asking for more than the tank can take has filled it to capacity
Wit_C2 ==
  /\ lastOp.name = "refuelAtDepot"
  /\ lastOp.req.given
  /\ lastOp.req.tenths \div 10 > (90 + 30 * prev.fuelLevel) - prev.fuel
  /\ prev.fuel < fuel
  /\ fuel = 90 + 30 * fuelLevel

\* the last operation was a step onto stone, aegis or voidbed with a drill
\* tier (drillLevel + 1) below the tier the tile requires
GatedStep ==
  /\ lastOp.name = "attemptStep"
  /\ TargetInBounds
  /\ LET tile == TileAt(prev.world, TargetX, TargetY) IN
       \/ tile = "stone" /\ prev.drillLevel + 1 < STONE_REQUIRED_DRILL_TIER
       \/ tile = "aegis" /\ prev.drillLevel + 1 < AEGIS_REQUIRED_DRILL_TIER
       \/ tile = "voidbed" /\ prev.drillLevel + 1 < VOIDBED_REQUIRED_DRILL_TIER

\* C3: a step onto stone, aegis or voidbed with drillLevel + 1 below 6, 9 or
\* 12 leaves the target tile, the fuel, the robot's position, the cargo and
\* the money as they were.
Thm_C3 ==
  GatedStep =>
    /\ TileAt(world, TargetX, TargetY) = TileAt(prev.world, TargetX, TargetY)
    /\ fuel = prev.fuel
    /\ Position(Cur) = Position(prev)
    /\ Cargo(Cur) = Cargo(prev)
    /\ money = prev.money

\* the drill at tier 11 has just been refused by voidbed
Wit_C3 ==
  /\ GatedStep
  /\ ~StepGate(prev)
  /\ prev.drillLevel + 1 = VOIDBED_REQUIRED_DRILL_TIER - 1
  /\ status = "Voidbed requires better drill hardware."

\* C4: after emergencyTow from a stranded state at (x, y) every manifest entry
\* has count floor(old count * 0.6) and value floor(old value * 0.6), the
\* totals are the sums of the new entries, the robot is at (x, 0), the fuel is
\* the capacity and stranded is false.
Thm_C4 ==
  (lastOp.name = "emergencyTow" /\ prev.stranded) =>
    /\ \A c \in CargoTypeSet :
         /\ cargoManifest[c].count = (6 * prev.cargoManifest[c].count) \div 10
         /\ cargoManifest[c].value = (6 * prev.cargoManifest[c].value) \div 10
    /\ cargoUsed = SumCount(cargoManifest, Len(CARGO_TYPES))
    /\ cargoValue = SumValue(cargoManifest, Len(CARGO_TYPES))
    /\ robotX = prev.robotX
    /\ robotY = 0
    /\ fuel = 90 + 30 * fuelLevel
    /\ ~stranded

\* a tow from underground of a hold with ore in it, some of it lost
Wit_C4 ==
  /\ lastOp.name = "emergencyTow"
  /\ prev.stranded
  /\ prev.robotY > 0
  /\ cargoUsed > 0
  /\ cargoUsed < prev.cargoUsed
  /\ \E c \in CargoTypeSet : (6 * prev.cargoManifest[c].value) % 10 # 0

\* C5 as stated: totalEarned never decreases, whatever the operation (steps,
\* sales, refuels, upgrades, tows, new shafts, new-profile resets, profile
\* switches).
Orig_C5 == totalEarned >= prev.totalEarned

\* C5: totalEarned never decreases under a step, a sale, a refuel, an upgrade
\* purchase, a tow, a depot or pause operation, or a new shaft that keeps
\* progress; a new-profile reset sets it to 0, and a switch to another profile
\* replaces it with the sanitized totalEarned stored for that profile.
Thm_C5 ==
  /\ lastOp.name \notin {"createNewProfile", "switchProfile"} =>
       totalEarned >= prev.totalEarned
  /\ lastOp.name = "createNewProfile" => totalEarned = 0
  /\ (lastOp.name = "switchProfile" /\ lastOp.dx # prev.activeProfile) =>
       totalEarned =
         sanitizeProgress(readProgress(prev.storage, lastOp.dx)).totalEarned

\* a sale has raised totalEarned
Wit_C5 ==
  /\ lastOp.name = "sellCargo"
  /\ prev.totalEarned > 0
  /\ totalEarned > prev.totalEarned

\* C6: sell() with the sell panel open and cargoValue = v > 0 adds v to money
\* and to totalEarned, zeroes the manifest and both totals, and leaves fuel,
\* the levels, the robot's position, the world and the open panel alone; in
\* any other state it changes none of money, totalEarned and the cargo.
Thm_C6 ==
  lastOp.name = "sellCargo" =>
    IF prev.depotPanel = "sell" /\ prev.cargoValue > 0
    THEN /\ money = prev.money + prev.cargoValue
         /\ totalEarned = prev.totalEarned + prev.cargoValue
         /\ \A c \in CargoTypeSet :
              cargoManifest[c].count = 0 /\ cargoManifest[c].value = 0
         /\ cargoUsed = 0
         /\ cargoValue = 0
         /\ fuel = prev.fuel
         /\ Levels(Cur) = Levels(prev)
         /\ Position(Cur) = Position(prev)
         /\ world = prev.world
         /\ depotPanel = prev.depotPanel
    ELSE /\ money = prev.money
         /\ totalEarned = prev.totalEarned
         /\ Cargo(Cur) = Cargo(prev)

\* a sale of a hold worth something, at the open sell panel
Wit_C6 ==
  /\ lastOp.name = "sellCargo"
  /\ prev.depotPanel = "sell"
  /\ prev.cargoValue > 0
  /\ prev.cargoUsed > 0
  /\ money > prev.money

\* the last operation was a purchase the conditions of C7 rule out
RejectedPurchase ==
  /\ lastOp.name = "purchaseUpgrade"
  /\ \/ prev.stranded
     \/ prev.depotPanel # "upgrade"
     \/ prev.robotY # 0
     \/ LevelOf(prev, lastOp.id) = MAX_UPGRADE_LEVEL
     \/ prev.money < getUpgradeCost(lastOp.id, LevelOf(prev, lastOp.id))

\* C7: purchaseUpgrade(id) leaves money, the four levels and fuel unchanged
\* when the robot is stranded, the open panel is not the upgrade panel, the
\* robot is not on row 0, the track is at MAX_UPGRADE_LEVEL, or money is below
\* the cost (money = cost - 1 included).
Thm_C7 ==
  RejectedPurchase =>
    /\ money = prev.money
    /\ Levels(Cur) = Levels(prev)
    /\ fuel = prev.fuel

\* at the open upgrade panel, a purchase one coin short of the price
Wit_C7 ==
  /\ lastOp.name = "purchaseUpgrade"
  /\ ~prev.stranded
  /\ prev.depotPanel = "upgrade"
  /\ prev.robotY = 0
  /\ LevelOf(prev, lastOp.id) < MAX_UPGRADE_LEVEL
  /\ prev.money = getUpgradeCost(lastOp.id, LevelOf(prev, lastOp.id)) - 1

\* the last operation was a purchase none of the conditions of C7 rules out
AcceptedPurchase ==
  /\ lastOp.name = "purchaseUpgrade"
  /\ ~prev.stranded
  /\ prev.depotPanel = "upgrade"
  /\ prev.robotY = 0
  /\ LevelOf(prev, lastOp.id) < MAX_UPGRADE_LEVEL
  /\ prev.money >= getUpgradeCost(lastOp.id, LevelOf(prev, lastOp.id))

\* C8: a successful purchaseUpgrade(id) deducts exactly the cost of the
\* track's level, raises that track by one and no other, leaves totalEarned
\* and the cargo alone, and changes fuel only for the fuel track, where fuel
\* becomes the capacity of the new level.
Thm_C8 ==
  AcceptedPurchase =>
    /\ money = prev.money - getUpgradeCost(lastOp.id, LevelOf(prev, lastOp.id))
    /\ \A id \in UpgradeIds :
         LevelOf(Cur, id) = LevelOf(prev, id) + (IF id = lastOp.id THEN 1 ELSE 0)
    /\ totalEarned = prev.totalEarned
    /\ Cargo(Cur) = Cargo(prev)
    /\ fuel = IF lastOp.id = "fuel" THEN 90 + 30 * fuelLevel ELSE prev.fuel

\* a track other than fuel bought with the tank not full
Wit_C8 ==
  /\ AcceptedPurchase
  /\ lastOp.id = "cargo"
  /\ cargoLevel = prev.cargoLevel + 1
  /\ fuel < 90 + 30 * fuelLevel

\* what the fuel panel can sell in the state before the last operation
MissingFuel == (90 + 30 * prev.fuelLevel) - prev.fuel
Purchasable == Min(MissingFuel, prev.money \div 2)

\* C9: refuel with the fuel panel open and purchasable = min(capacity - fuel,
\* floor(money / 2)) > 0 buys purchasable units when no count is requested,
\* else clamp(floor(requested), 1, purchasable) units, paying 2 per unit;
\* with another panel, a full tank or purchasable = 0 it changes neither
\* money nor fuel.
Thm_C9 ==
  lastOp.name = "refuelAtDepot" =>
    IF prev.depotPanel = "fuel" /\ Purchasable > 0
    THEN LET units == IF lastOp.req.given
                      THEN Max(1, Min(lastOp.req.tenths \div 10, Purchasable))
                      ELSE Purchasable
         IN money = prev.money - 2 * units /\ fuel = prev.fuel + units
    ELSE money = prev.money /\ fuel = prev.fuel

\* a request for 2.5 units, with more than 2 purchasable, has bought 2
Wit_C9 ==
  /\ lastOp.name = "refuelAtDepot"
  /\ prev.depotPanel = "fuel"
  /\ lastOp.req.given
  /\ lastOp.req.tenths % 10 # 0
  /\ Purchasable > lastOp.req.tenths \div 10
  /\ fuel = prev.fuel + 2

\* C10: a step while paused, stranded or with a panel open changes nothing:
\* position, facing, aim, world, fuel, cargo, money, status and stranded stay.
Thm_C10 ==
  (lastOp.name = "attemptStep"
     /\ (prev.paused \/ prev.stranded \/ prev.depotPanel # NoDepot)) =>
    /\ Position(Cur) = Position(prev)
    /\ robotFacing = prev.robotFacing
    /\ drillAim = prev.drillAim
    /\ world = prev.world
    /\ fuel = prev.fuel
    /\ Cargo(Cur) = Cargo(prev)
    /\ money = prev.money
    /\ status = prev.status
    /\ stranded = prev.stranded

\* a step down, while paused, over a tile the drill could break
Wit_C10 ==
  /\ lastOp.name = "attemptStep"
  /\ prev.paused
  /\ ~prev.stranded
  /\ prev.depotPanel = NoDepot
  /\ lastOp.dy = 1
  /\ prev.fuel > 0
  /\ TileAt(prev.world, TargetX, TargetY) \in {"dirt", "rock"}

\* the last operation was a step that passed the gate
OpenStep == lastOp.name = "attemptStep" /\ ~StepGate(prev)

\* C11 as stated: a step whose target cell is outside the grid changes
\* nothing: position, facing, drill aim, world, fuel, cargo and the stranded
\* flag are as before.
Orig_C11 ==
  (lastOp.name = "attemptStep" /\ ~TargetInBounds) =>
    /\ Position(Cur) = Position(prev)
    /\ robotFacing = prev.robotFacing
    /\ drillAim = prev.drillAim
    /\ world = prev.world
    /\ fuel = prev.fuel
    /\ Cargo(Cur) = Cargo(prev)
    /\ stranded = prev.stranded

\* the last operation was a step that was accepted into an empty cell
EmptyMove ==
  /\ OpenStep
  /\ TargetInBounds
  /\ TileAt(prev.world, TargetX, TargetY) = "empty"
  /\ (prev.fuel > 0 \/ (prev.robotY = 0 /\ TargetY = 0))

\* C12 as stated: an accepted step into an empty cell moves the robot into
\* it and costs exactly 1 fuel, except between two cells of row 0, where it
\* costs nothing; a move from row 1 up into row 0 costs 1.
Orig_C12 ==
  EmptyMove =>
    /\ Position(Cur) = <<TargetX, TargetY>>
    /\ fuel = prev.fuel - (IF prev.robotY = 0 /\ TargetY = 0 THEN 0 ELSE 1)

\* the last operation was a step onto a sellable ore with the hold full
CargoFullStep ==
  /\ OpenStep
  /\ TargetInBounds
  /\ prev.fuel > 0
  /\ TileAt(prev.world, TargetX, TargetY) \in CargoTypeSet
  /\ prev.cargoUsed >= 12 + 7 * prev.cargoLevel

\* C13: a step onto a sellable ore while cargoUsed >= cargoCapacity is
\* rejected: the tile stays, the robot does not move, fuel and the manifest
\* are unchanged, and the cooldown returned, max(60, moveDelay * 0.5), is
\* strictly shorter than the cooldown of a successful move (moveDelay) at
\* every treads level.
Thm_C13 ==
  /\ CargoFullStep =>
       /\ TileAt(world, TargetX, TargetY) = TileAt(prev.world, TargetX, TargetY)
       /\ Position(Cur) = Position(prev)
       /\ fuel = prev.fuel
       /\ cargoManifest = prev.cargoManifest
       /\ lastOp.ret = Max(60 * 100, getMoveDelayMs(prev.treadsLevel) * 50)
       /\ lastOp.ret < getMoveDelayMs(prev.treadsLevel) * 100
  /\ \A level \in 0..MAX_UPGRADE_LEVEL :
       Max(60 * 100, getMoveDelayMs(level) * 50) < getMoveDelayMs(level) * 100

\* a step down onto ore refused with exactly a full hold
Wit_C13 ==
  /\ CargoFullStep
  /\ prev.cargoUsed = 12 + 7 * prev.cargoLevel
  /\ lastOp.dy = 1
  /\ status = "Cargo full. Return to the surface to sell."

\* the tier (drillLevel + 1) of the state before the last operation refuses
\* the tile
Gated(tile) ==
  \/ tile = "stone" /\ prev.drillLevel + 1 < STONE_REQUIRED_DRILL_TIER
  \/ tile = "aegis" /\ prev.drillLevel + 1 < AEGIS_REQUIRED_DRILL_TIER
  \/ tile = "voidbed" /\ prev.drillLevel + 1 < VOIDBED_REQUIRED_DRILL_TIER

\* the last operation was a step that broke a tile: dirt, rock, an ore with
\* room in the hold, or a gated tile the drill tier suffices for
StandardBreak ==
  /\ OpenStep
  /\ TargetInBounds
  /\ prev.fuel > 0
  /\ LET tile == TileAt(prev.world, TargetX, TargetY) IN
       /\ tile # "empty"
       /\ ~(tile \in CargoTypeSet /\ prev.cargoUsed >= 12 + 7 * prev.cargoLevel)
       /\ ~Gated(tile)

\* the scenario of C14 starts in state s
ScenarioStart(s) ==
  /\ ~StepGate(s)
  /\ s.robotX = 11 /\ s.robotY = 0
  /\ s.fuel = 90
  /\ s.cargoUsed = 0
  /\ s.cargoManifest["coal"] = [count |-> 0, value |-> 0]
  /\ TileAt(s.world, 11, 1) = "dirt"
  /\ TileAt(s.world, 11, 2) = "dirt"
  /\ TileAt(s.world, 11, 3) = "coal"

\* C14: a standard tile break empties the target cell, moves the robot onto
\* it and takes max(1, round(hardness * 1.15 * p)) fuel, floored at 0, with
\* p = 1 + 0.75 * max(0, 3 - drillTier) for rock and 1 otherwise; an ore adds
\* 1 to its count and round(baseValue * (1 + targetRow / 95)) to its value.
\* From (11,0) with fuel 90, three steps down through dirt, dirt, coal give
\* fuel 86, cargoUsed 1, coal count 1 and coal value 14.
Thm_C14 ==
  /\ StandardBreak =>
       LET tile == TileAt(prev.world, TargetX, TargetY)
           gap == IF tile = "rock" THEN Max(0, 3 - (prev.drillLevel + 1)) ELSE 0
           cost == Max(1, RoundDiv(TILE_DEFS[tile].hardness10 * 115 * (4 + 3 * gap),
                                   4000))
           gain == RoundDiv(TILE_DEFS[tile].value * (95 + TargetY), 95)
       IN /\ TileAt(world, TargetX, TargetY) = "empty"
          /\ Position(Cur) = <<TargetX, TargetY>>
          /\ fuel = Max(0, prev.fuel - cost)
          /\ tile \in CargoTypeSet =>
               /\ cargoManifest[tile].count = prev.cargoManifest[tile].count + 1
               /\ cargoManifest[tile].value = prev.cargoManifest[tile].value + gain
  /\ ScenarioStart(Cur) =>
       LET s1 == attemptStep(Cur, 0, 1).s
           s2 == attemptStep(s1, 0, 1).s
           s3 == attemptStep(s2, 0, 1).s
       IN /\ Position(s3) = <<11, 3>>
          /\ s3.fuel = 86
          /\ s3.cargoUsed = 1
          /\ s3.cargoManifest["coal"] = [count |-> 1, value |-> 14]

\* the third step of the scenario has just mined the coal of row 3
Wit_C14 ==
  /\ StandardBreak
  /\ ScenarioStart([prev EXCEPT !.robotY = 0, !.fuel = 90,
                                !.world = createWorld(prev.world.seed)])
  /\ Position(prev) = <<11, 2>>
  /\ prev.fuel = 88
  /\ lastOp.dy = 1
  /\ fuel = 86
  /\ cargoUsed = 1
  /\ cargoManifest["coal"] = [count |-> 1, value |-> 14]

\* the last operation was a step that moved the robot
MovedStep == lastOp.name = "attemptStep" /\ Position(Cur) # Position(prev)

\* C15: after an accepted move or mine that leaves fuel at 0 with the robot
\* underground, stranded is set and no depot panel is open; and a step
\* requested while stranded changes neither position, world nor fuel, and
\* leaves the robot stranded.
Thm_C15 ==
  /\ (MovedStep /\ fuel = 0 /\ robotY > 0) =>
       stranded /\ depotPanel = NoDepot
  /\ (lastOp.name = "attemptStep" /\ prev.stranded) =>
       /\ Position(Cur) = Position(prev)
       /\ world = prev.world
       /\ fuel = prev.fuel
       /\ stranded

\* a tile mined with the last of the fuel, chosen freely by the player
Wit_C15 ==
  /\ MovedStep
  /\ opCount > 0
  /\ prev.fuel > 0
  /\ ~prev.stranded
  /\ world # prev.world
  /\ fuel = 0
  /\ robotY > 0
  /\ stranded

\* the operations that start a fresh shaft
FreshShaftOps == {"startNewShaft", "createNewProfile", "switchProfile"}

\* C16 as stated: a stranded robot remains stranded under every operation
\* but the emergency tow (steps, pause, depot open/close/toggle, sell, refuel,
\* upgrade purchase, new shaft, new-profile reset, profile switch).
Orig_C16 ==
  (prev.stranded /\ lastOp.name # "emergencyTow") => stranded

\* C16: a stranded robot remains stranded under step requests, the pause
\* toggle, depot open, close and toggle, sell, refuel and upgrade purchase,
\* and under a switch to the profile already active; the emergency tow ends
\* the stranded state, and so do a new shaft, a new-profile reset and a
\* switch to another profile, which put the robot on row 0 of a fresh shaft
\* with a full tank.
Thm_C16 ==
  prev.stranded =>
    IF lastOp.name = "emergencyTow" THEN ~stranded
    ELSE IF lastOp.name \in FreshShaftOps
              /\ ~(lastOp.name = "switchProfile" /\ lastOp.dx = prev.activeProfile)
    THEN ~stranded /\ robotY = 0 /\ fuel = 90 + 30 * fuelLevel
    ELSE stranded

\* a new-profile reset has ended the stranded state
Wit_C16 ==
  /\ prev.stranded
  /\ lastOp.name = "createNewProfile"
  /\ ~stranded

\* C17: row 0 of the world is empty in every reachable state, in every
\* generated shaft and after any steps, tows and shaft regenerations.
Thm_C17 ==
  \A x \in 0..(WORLD_WIDTH - 1) : TileAt(world, x, 0) = "empty"

\* a shaft regenerated after the robot had dug into the one before
Wit_C17 ==
  /\ lastOp.name = "startNewShaft"
  /\ prev.world.mined # {}
  /\ world # prev.world
  /\ \E x \in 0..(WORLD_WIDTH - 1) : TileAt(world, x, 1) # "empty"

NonSellable == {"dirt", "rock", "stone", "aegis", "voidbed"}

\* the last operation was a step onto a non-sellable tile the drill can break
NonSellableBreak ==
  /\ OpenStep
  /\ TargetInBounds
  /\ prev.fuel > 0
  /\ TileAt(prev.world, TargetX, TargetY) \in NonSellable
  /\ ~Gated(TileAt(prev.world, TargetX, TargetY))

\* C18: mining a non-sellable tile (dirt, rock, stone, aegis, voidbed) leaves
\* cargoUsed, cargoValue and every manifest entry unchanged, and the tile is
\* mined whatever the hold contains, a full hold included.
Thm_C18 ==
  NonSellableBreak =>
    /\ Cargo(Cur) = Cargo(prev)
    /\ TileAt(world, TargetX, TargetY) = "empty"
    /\ Position(Cur) = <<TargetX, TargetY>>

\* a non-sellable tile mined with the hold exactly full
Wit_C18 ==
  /\ NonSellableBreak
  /\ prev.cargoUsed = 12 + 7 * prev.cargoLevel
  /\ world # prev.world

\* C19: closeDepot() twice in a row leaves the state closeDepot() once
\* leaves, from every reachable state; with no panel open it changes
\* nothing, the status message included.
Thm_C19 ==
  /\ closeDepot(closeDepot(Cur)) = closeDepot(Cur)
  /\ depotPanel = NoDepot => closeDepot(Cur) = Cur
  /\ (lastOp.name = "closeDepot" /\ prev.depotPanel = NoDepot) => Cur = prev

\* closeDepot() called again right after it closed a panel
Wit_C19 ==
  /\ lastOp.name = "closeDepot"
  /\ prev.depotPanel = NoDepot
  /\ prev.status = "Depot closed."
  /\ Cur = prev

\* the depot within reach of column x, if any
DepotInReach(x) == {d \in DepotIds : Abs(x - DepotX(d)) <= 1}

\* C20: openDepot(id) sets the open panel to id if and only if the robot is
\* on row 0 within distance 1 of the depot's column; otherwise the panel is
\* unchanged and the status tells "not on the surface" from "not within
\* range".  nearbyDepot(x, y) is a depot within distance 1 of x when y = 0
\* and there is one, and none otherwise (for every column x and the row y
\* the robot is on when a depot operation runs).
Thm_C20 ==
  /\ lastOp.name = "openDepot" =>
       IF prev.robotY = 0 /\ lastOp.id \in DepotInReach(prev.robotX)
       THEN depotPanel = lastOp.id
       ELSE /\ depotPanel = prev.depotPanel
            /\ depotPanel # lastOp.id
            /\ status = IF prev.robotY # 0
                        THEN "Depots are only available on the surface."
                        ELSE "Move closer to the depot."
  /\ lastOp.name \in {"openDepot", "triggerDepotAction"} =>
       \A x \in 0..(WORLD_WIDTH - 1) :
         LET nearby == getNearbyDepotIdForPosition(x, prev.robotY) IN
         IF prev.robotY = 0 /\ DepotInReach(x) # {}
         THEN nearby \in DepotInReach(x)
         ELSE nearby = NoDepot

\* a depot opened from the column next to it
Wit_C20 ==
  /\ lastOp.name = "openDepot"
  /\ prev.robotY = 0
  /\ Abs(prev.robotX - DepotX(lastOp.id)) = 1
  /\ prev.depotPanel = NoDepot
  /\ depotPanel = lastOp.id

\* the persisted part of the state: money, totalEarned and the four levels
Progress(s) ==
  [money |-> s.money, totalEarned |-> s.totalEarned,
   cargoLevel |-> s.cargoLevel, drillLevel |-> s.drillLevel,
   fuelLevel |-> s.fuelLevel, treadsLevel |-> s.treadsLevel]

\* what a load of profile p from the store yields
Loaded(store, p) ==
  LET v == sanitizeProgress(readProgress(store, p)) IN Progress(v)

\* the robot stands at the start of a shaft nothing was mined from, with an
\* empty hold, a full tank, not stranded, not paused and no panel open
AtShaftStart ==
  /\ Position(Cur) = <<11, 0>>
  /\ world.mined = {}
  /\ Cargo(Cur) = <<0, 0, createEmptyCargoManifest>>
  /\ fuel = 90 + 30 * fuelLevel
  /\ ~stranded
  /\ ~paused
  /\ depotPanel = NoDepot

\* C21: a switch to a profile p other than the active one writes no profile
\* snapshot; after it p is active, money, totalEarned and the four levels
\* are the sanitized snapshot stored for p (all zero when none is stored),
\* the shaft is fresh with the robot at (11,0), the hold is empty, the tank
\* holds fuelCapacity(loaded fuel level), stranded and paused are false and
\* no panel is open.  A switch to the active profile changes nothing.
Thm_C21 ==
  lastOp.name = "switchProfile" =>
    IF lastOp.dx = prev.activeProfile THEN Cur = prev
    ELSE /\ storage.profiles = prev.storage.profiles
         /\ activeProfile = lastOp.dx
         /\ Progress(Cur) = Loaded(prev.storage, lastOp.dx)
         /\ AtShaftStart

\* a switch, from a shaft already dug into, to the profile whose stored
\* snapshot is out of range
Wit_C21 ==
  /\ lastOp.name = "switchProfile"
  /\ lastOp.dx # prev.activeProfile
  /\ prev.world.mined # {}
  /\ prev.cargoUsed > 0
  /\ prev.storage.profiles[lastOp.dx] = Corrupt
  /\ Levels(Cur) = <<11, 0, 11, 4>>
  /\ money = 0

\* the last operation was a sale, a refuel or an upgrade purchase that went
\* through, or a new-profile reset
PersistingOp ==
  \/ lastOp.name = "createNewProfile"
  \/ /\ lastOp.name \in {"sellCargo", "refuelAtDepot", "purchaseUpgrade"}
     /\ (money # prev.money \/ fuel # prev.fuel \/ Levels(Cur) # Levels(prev))

\* the progress in memory after the component is constructed again over
\* the store and mounted
Remounted(s) ==
  MountEffects(Constructed(s.storage, s.highScore, shaftSeed), shaftSeed)

\* the progress in memory after a switch from the active profile to q and
\* back
SwitchedAwayAndBack(s, q) ==
  switchProfile(switchProfile(s, q, shaftSeed), s.activeProfile, shaftSeed)

\* C22: after every completed sale, refuel, upgrade purchase and
\* new-profile reset the snapshot stored under the active profile's key
\* equals money, totalEarned and the four levels in memory; so a switch to
\* another profile and back, and a remount, restore exactly those six
\* values (and the active profile).  In every mounted state a load of the
\* active profile yields the six values in memory.
Thm_C22 ==
  /\ PersistingOp =>
       /\ storage.profiles[activeProfile] = Saved(Progress(Cur))
       /\ \A q \in 0..(PROFILE_COUNT - 1) :
            /\ Progress(SwitchedAwayAndBack(Cur, q)) = Progress(Cur)
            /\ SwitchedAwayAndBack(Cur, q).activeProfile = activeProfile
       /\ Progress(Remounted(Cur)) = Progress(Cur)
       /\ Remounted(Cur).activeProfile = activeProfile
  /\ mounted => Loaded(storage, activeProfile) = Progress(Cur)

\* an upgrade bought on the second profile: its stored snapshot changed
Wit_C22 ==
  /\ lastOp.name = "purchaseUpgrade"
  /\ activeProfile = 1
  /\ Levels(Cur) # Levels(prev)
  /\ storage.profiles[1] # prev.storage.profiles[1]
  /\ storage.profiles[1] = Saved(Progress(Cur))
  /\ Progress(SwitchedAwayAndBack(Cur, 2)) = Progress(Cur)

ZeroProgress ==
  [money |-> 0, totalEarned |-> 0, cargoLevel |-> 0, drillLevel |-> 0,
   fuelLevel |-> 0, treadsLevel |-> 0]

SnapshotValues == (-3)..(MAX_UPGRADE_LEVEL + 3)

\* field by field, every combination of two values out of SnapshotValues
SnapshotInputs == {Snap(a, b, a, b, b, a) : a, b \in SnapshotValues}

Sanitized(raw) ==
  LET v == sanitizeProgress(raw) IN
  /\ v.money >= 0
  /\ v.totalEarned >= 0
  /\ \A i \in 1..4 : Levels(v)[i] \in 0..MAX_UPGRADE_LEVEL
  /\ raw.money >= 0 => v.money = raw.money
  /\ raw.totalEarned >= 0 => v.totalEarned = raw.totalEarned
  /\ \A i \in 1..4 :
       Levels(raw)[i] \in 0..MAX_UPGRADE_LEVEL => Levels(v)[i] = Levels(raw)[i]
  /\ sanitizeProgress(v) = v

\* C24: for every persisted snapshot with integer fields, negative and
\* above-range ones included, sanitize returns money >= 0, totalEarned >= 0
\* and each level in [0, 11]; a field already in its domain is returned
\* unchanged; sanitize applied twice gives what it gives applied once.
\* Checked on the snapshot each load of a mount or a switch reads from the
\* store, and at the mount on every snapshot of SnapshotInputs.
Thm_C24 ==
  /\ lastOp.name \in {"mount", "switchProfile"} =>
       Sanitized(readProgress(prev.storage, activeProfile))
  /\ lastOp.name = "mount" =>
       \A raw \in SnapshotInputs : Sanitized(raw)

\* the mount that loaded the out-of-range snapshot (-5, -7, 99, -3, 12, 4)
Wit_C24 ==
  /\ lastOp.name = "mount"
  /\ activeProfile = 2
  /\ readProgress(prev.storage, 2) = Corrupt
  /\ Progress(Cur) = Progress(sanitizeProgress(Corrupt))
  /\ Progress(Cur) = [ZeroProgress EXCEPT !.cargoLevel = 11, !.fuelLevel = 11,
                                          !.treadsLevel = 4]

\* the last operation was a step request that got past the gate of
\* attemptStep and the bounds test: attemptStep returned a cooldown
AcceptedStep == lastOp.name = "attemptStep" /\ lastOp.ret # Null

\* C25 as stated: a directional step is the same transition whether it comes
\* from the keyboard or from the on-screen control, the action cooldown
\* included: from either origin no step is accepted while the cooldown of
\* the step before is still positive (for a key, after the frame took its
\* time off), and an accepted step sets the cooldown to the value returned.
Orig_C25 ==
  AcceptedStep =>
    /\ IF lastOp.id = "key"
       THEN \E deltaMs \in FrameDeltas : prev.actionCooldownMs - deltaMs <= 0
       ELSE prev.actionCooldownMs <= 0
    /\ actionCooldownMs = lastOp.ret

\* the state without what only the renderer reads
Simulation(s) == [s EXCEPT !.spriteLoadState = "", !.renderMode = ""]

\* every operation of the game applied to s, each result without what only
\* the renderer reads (a step with the cooldown it returns)
Outcomes(s) ==
  [steps    |-> [d \in Directions |->
                   LET r == attemptStep(s, d[1], d[2])
                   IN <<Simulation(r.s), r.ret>>],
   frames   |-> [d \in Directions \cup {NoKey} |->
                   [t \in FrameDeltas |-> Simulation(frame(s, t, d).s)]],
   sell     |-> Simulation(sellCargo(s)),
   refuel   |-> [q \in RefuelRequests |-> Simulation(refuelAtDepot(s, q))],
   upgrade  |-> [id \in UpgradeIds |-> Simulation(purchaseUpgrade(s, id))],
   tow      |-> Simulation(emergencyTow(s)),
   pause    |-> Simulation(togglePause(s)),
   open     |-> [id \in DepotIds |-> Simulation(openDepot(s, id))],
   close    |-> Simulation(closeDepot(s)),
   action   |-> Simulation(triggerDepotAction(s)),
   shaft    |-> Simulation(startNewShaft(s, TRUE, "", shaftSeed)),
   reset    |-> Simulation(createNewProfile(s, shaftSeed)),
   switch   |-> [q \in 0..(PROFILE_COUNT - 1) |->
                   Simulation(switchProfile(s, q, shaftSeed))]]

\* C26: the completion of the sprite load changes spriteLoadState and
\* renderMode and nothing else; and the state it leaves and the state it
\* found, which differ in those two only, are taken by every operation of
\* the game to states that again differ in those two only, with the same
\* returned cooldown.  So two runs with the same inputs that differ in when
\* (or whether, or how) the load completes agree on the gameplay state
\* throughout.  The same holds for the Visual toggle.
Thm_C26 ==
  lastOp.name \in {"spriteLoad", "toggleRenderMode"} =>
    /\ Simulation(Cur) = Simulation(prev)
    /\ Outcomes(Cur) = Outcomes(prev)

\* the load completed without the core sprites, in the middle of a game: the
\* robot back from a trip with cargo, a depot panel open
Wit_C26 ==
  /\ lastOp.name = "spriteLoad"
  /\ prev.spriteLoadState = "loading"
  /\ spriteLoadState = "fallback"
  /\ renderMode = "procedural"
  /\ prev.renderMode = "sprite"
  /\ world.mined # {}
  /\ cargoUsed > 0

\* C27: in no reachable state is the robot stranded while a depot panel is
\* open.
Thm_C27 ==
  ~(stranded /\ depotPanel # NoDepot)

\* a stranded robot under the column of the fuel depot, after a request to
\* open that depot was turned down
Wit_C27 ==
  /\ stranded
  /\ prev.stranded
  /\ lastOp.name = "openDepot"
  /\ lastOp.id = "fuel"
  /\ Abs(robotX - DepotX("fuel")) <= DEPOT_INTERACT_DISTANCE
  /\ depotPanel = NoDepot

\* the last operation was a sale that went through
CompletedSale == lastOp.name = "sellCargo" /\ money # prev.money

\* C28: a sale updates the high score exactly when the new totalEarned
\* exceeds the best recorded before, and then to the new totalEarned; the
\* recorded high score of Gem Miner never decreases, whatever the operation
\* (resets and profile switches included); after every completed sale it is
\* at least totalEarned; the scores the hub records for the other games
\* never change; the highScore the component sees is the hub's record.
Thm_C28 ==
  /\ CompletedSale =>
       /\ highScore # prev.highScore <=> totalEarned > prev.highScore
       /\ highScore # prev.highScore => highScore = totalEarned
       /\ highScore >= totalEarned
  /\ highScore >= prev.highScore
  /\ highScore = highScores["gem-miner"]
  /\ \A g \in GameIds \ {"gem-miner"} : highScores[g] = prev.highScores[g]

\* a sale that beat the recorded best by one, with the other games' lower
\* scores left alone
Wit_C28 ==
  /\ CompletedSale
  /\ totalEarned = prev.highScore + 1
  /\ highScore = totalEarned
  /\ highScores["gem-miner"] = totalEarned
  /\ \A g \in GameIds \ {"gem-miner"} :
       highScores[g] < totalEarned /\ highScores[g] = prev.highScores[g]

\* a sale that only equalled the recorded best: no update
Wit_C28_tie ==
  /\ CompletedSale
  /\ totalEarned = prev.highScore
  /\ highScores = prev.highScores

\* the tables of the generator, band by band: the depths of a band are
\* those below `below` and not in a band before; an entry is the cumulative
\* bound, in hundredths, and the tile
BandTables ==
  <<
    [below |-> 18,
     table |-> << <<62, "dirt">>, <<82, "rock">>, <<94, "coal">>,
                   <<100, "copper">> >>],
    [below |-> 40,
     table |-> << <<36, "dirt">>, <<64, "rock">>, <<80, "coal">>,
                   <<92, "copper">>, <<100, "silver">> >>],
    [below |-> 70,
     table |-> << <<15, "dirt">>, <<45, "rock">>, <<65, "stone">>,
                   <<77, "coal">>, <<89, "copper">>, <<97, "silver">>,
                   <<100, "gold">> >>],
    [below |-> 105,
     table |-> << <<22, "rock">>, <<56, "stone">>, <<64, "coal">>,
                   <<76, "copper">>, <<88, "silver">>, <<95, "gold">>,
                   <<99, "ruby">>, <<100, "platinum">> >>],
    [below |-> 145,
     table |-> << <<34, "stone">>, <<58, "aegis">>, <<66, "copper">>,
                   <<76, "silver">>, <<85, "gold">>, <<92, "ruby">>,
                   <<96, "platinum">>, <<99, "diamond">>, <<100, "iridium">> >>],
    [below |-> 190,
     table |-> << <<20, "stone">>, <<58, "aegis">>, <<66, "silver">>,
                   <<76, "gold">>, <<84, "ruby">>, <<90, "platinum">>,
                   <<95, "diamond">>, <<98, "iridium">>, <<100, "aurelite">> >>],
    [below |-> 245,
     table |-> << <<36, "aegis">>, <<54, "voidbed">>, <<62, "gold">>,
                   <<70, "ruby">>, <<78, "platinum">>, <<85, "diamond">>,
                   <<91, "iridium">>, <<96, "aurelite">>, <<99, "cryostone">>,
                   <<100, "helionite">> >>],
    [below |-> 320,
     table |-> << <<20, "aegis">>, <<54, "voidbed">>, <<61, "platinum">>,
                   <<69, "diamond">>, <<77, "iridium">>, <<86, "aurelite">>,
                   <<93, "cryostone">>, <<98, "helionite">>,
                   <<100, "voidCrystal">> >>],
    [below |-> WORLD_HEIGHT,
     table |-> << <<12, "aegis">>, <<45, "voidbed">>, <<53, "diamond">>,
                   <<63, "iridium">>, <<74, "aurelite">>, <<86, "cryostone">>,
                   <<95, "helionite">>, <<100, "voidCrystal">> >>]
  >>

\* the first band whose limit exceeds depth
BandOf(depth) ==
  BandTables[CHOOSE i \in 1..Len(BandTables) :
               /\ depth < BandTables[i].below
               /\ \A j \in 1..(i - 1) : depth >= BandTables[j].below]

\* the tile of the first entry of table whose bound exceeds roll
FirstAbove(table, roll) ==
  table[CHOOSE i \in 1..Len(table) :
          /\ roll < table[i][1]
          /\ \A j \in 1..(i - 1) : roll >= table[j][1]][2]

\* the value of the most valuable tile the generator can draw at depth
MaxOreValue(depth) ==
  LET values == {TILE_DEFS[pickTileByDepth(depth, r)].value : r \in Rolls}
  IN CHOOSE v \in values : \A w \in values : w <= v

\* C29: for every depth y >= 1 and every roll the tile generated is the
\* first entry of the table of y's band whose cumulative bound exceeds the
\* roll, and is never empty; dirt is generated only at y < 70, stone only
\* at y >= 40, aegis only at y >= 105, voidbed only at y >= 190; the value
\* of the most valuable ore that can be generated at a depth never
\* decreases with the depth.
Thm_C29 ==
  lastOp.name = "pickTileByDepth" =>
    LET depth == lastOp.dx
        roll == lastOp.dy
        tile == lastOp.id
    IN /\ tile = FirstAbove(BandOf(depth).table, roll)
       /\ tile # "empty"
       /\ tile \in DOMAIN TILE_DEFS
       /\ tile = "dirt" => depth < 70
       /\ tile = "stone" => depth >= 40
       /\ tile = "aegis" => depth >= 105
       /\ tile = "voidbed" => depth >= 190
       /\ (roll = 0 /\ depth + 1 < WORLD_HEIGHT) =>
            MaxOreValue(depth) <= MaxOreValue(depth + 1)

\* voidbed drawn at the first depth that has it, with the roll on the bound
\* of the entry before
Wit_C29 ==
  /\ lastOp.name = "pickTileByDepth"
  /\ lastOp.dx = 190
  /\ lastOp.dy = 36
  /\ lastOp.id = "voidbed"

\* C30: emergencyTow() while the robot is not stranded changes nothing:
\* position, fuel, manifest and cargo totals, the open panel and the
\* status message are what they were, and so is the rest of the state.
Thm_C30 ==
  (lastOp.name = "emergencyTow" /\ ~prev.stranded) =>
    /\ Position(Cur) = Position(prev)
    /\ fuel = prev.fuel
    /\ Cargo(Cur) = Cargo(prev)
    /\ depotPanel = prev.depotPanel
    /\ status = prev.status
    /\ Cur = prev

\* a tow asked for underground, with cargo aboard and the tank part empty
Wit_C30 ==
  /\ lastOp.name = "emergencyTow"
  /\ ~prev.stranded
  /\ prev.robotY > 0
  /\ prev.cargoUsed > 0
  /\ prev.fuel < 90 + 30 * prev.fuelLevel
  /\ Cur = prev

\* a tow asked for at the surface with a depot panel open
Wit_C30_panel ==
  /\ lastOp.name = "emergencyTow"
  /\ ~prev.stranded
  /\ prev.depotPanel # NoDepot
  /\ prev.cargoUsed > 0
  /\ Cur = prev

\* the state with the paused flag set to b
WithPaused(s, b) == [s EXCEPT !.paused = b]

\* the operations other than steps, applied to s, each result taken with
\* the paused flag masked
UnsteppedOutcomes(s) ==
  [tow     |-> WithPaused(emergencyTow(s), FALSE),
   sell    |-> WithPaused(sellCargo(s), FALSE),
   refuel  |-> [q \in RefuelRequests |-> WithPaused(refuelAtDepot(s, q), FALSE)],
   upgrade |-> [id \in UpgradeIds |-> WithPaused(purchaseUpgrade(s, id), FALSE)],
   open    |-> [id \in DepotIds |-> WithPaused(openDepot(s, id), FALSE)],
   close   |-> WithPaused(closeDepot(s), FALSE)]

\* C31: togglePause is accepted in every state, stranded or with a depot
\* panel open included, and changes nothing but the paused flag, which it
\* inverts, and the status message; emergencyTow, sell, refuel,
\* purchaseUpgrade, openDepot and closeDepot have the same effect on the
\* state whether the game is paused or not, and leave the paused flag as it
\* is (checked at the state each pause toggle leaves).
Thm_C31 ==
  lastOp.name = "togglePause" =>
    /\ paused = ~prev.paused
    /\ status = IF paused THEN "Paused." ELSE "Resumed."
    /\ Cur = [prev EXCEPT !.paused = paused, !.status = status]
    /\ UnsteppedOutcomes(WithPaused(Cur, TRUE))
         = UnsteppedOutcomes(WithPaused(Cur, FALSE))
    /\ emergencyTow(Cur).paused = paused
    /\ sellCargo(Cur).paused = paused
    /\ closeDepot(Cur).paused = paused
    /\ \A q \in RefuelRequests : refuelAtDepot(Cur, q).paused = paused
    /\ \A id \in UpgradeIds : purchaseUpgrade(Cur, id).paused = paused
    /\ \A id \in DepotIds : openDepot(Cur, id).paused = paused

\* the game paused while the robot is stranded underground with cargo
Wit_C31 ==
  /\ lastOp.name = "togglePause"
  /\ prev.stranded
  /\ ~prev.paused
  /\ paused
  /\ stranded
  /\ cargoUsed > 0
  /\ emergencyTow(Cur) # Cur

\* the game paused with the sell panel open and cargo to sell
Wit_C31_panel ==
  /\ lastOp.name = "togglePause"
  /\ paused
  /\ depotPanel = "sell"
  /\ sellCargo(Cur).money > money

\* the profile a stored index stands for: itself when in 0..2, the nearer
\* end when outside, 0 when none is stored
ProfileOfIndex(i) ==
  IF i = NoIndex \/ i < 0 THEN 0
  ELSE IF i > PROFILE_COUNT - 1 THEN PROFILE_COUNT - 1
  ELSE i

\* the state the mount effects leave is the one C32 describes for store
MountedOver(s, store) ==
  /\ s.activeProfile = ProfileOfIndex(store.index)
  /\ Progress(s) = Loaded(store, s.activeProfile)
  /\ s.storage.index = s.activeProfile
  /\ s.storage.profiles = store.profiles

\* stored indexes below, in and above the range, and none
StoredIndexes == {NoIndex, -4, 0, 1, 2, 3, 7}

\* C32: once the mount effects have all run, the active profile is the
\* persisted profile index clamped into [0, 2] (0 when none is stored), the
\* progress in memory is that profile's sanitized snapshot, the persisted
\* index equals the active profile, and no stored snapshot was modified.
\* Checked on each mount, and there also for the same store under every
\* index of StoredIndexes.
Thm_C32 ==
  lastOp.name = "mount" =>
    /\ MountedOver(Cur, prev.storage)
    /\ AtShaftStart
    /\ \A i \in StoredIndexes :
         LET store == [prev.storage EXCEPT !.index = i]
         IN MountedOver(
              MountEffects(Constructed(store, prev.highScore, shaftSeed), shaftSeed),
              store)

\* a mount over a stored index of 7: the third profile, whose snapshot is
\* out of range, is active and loaded sanitized
Wit_C32 ==
  /\ lastOp.name = "mount"
  /\ prev.storage.index = 7
  /\ activeProfile = 2
  /\ storage.index = 2
  /\ storage.profiles[2] = Corrupt
  /\ Levels(Cur) = <<11, 0, 11, 4>>

RECURSIVE SumCountOver(_, _)
\* the sum of the counts of the manifest entries of the types in ts
SumCountOver(manifest, ts) ==
  IF ts = {} THEN 0
  ELSE LET t == CHOOSE u \in ts : TRUE
       IN manifest[t].count + SumCountOver(manifest, ts \ {t})

RECURSIVE SumValueOver(_, _)
SumValueOver(manifest, ts) ==
  IF ts = {} THEN 0
  ELSE LET t == CHOOSE u \in ts : TRUE
       IN manifest[t].value + SumValueOver(manifest, ts \ {t})

\* the cargo totals are the sums of the manifest of the earlier variant
EarlierCargoConsistent ==
  /\ cargoUsed = SumCountOver(cargoManifest, Earlier_CargoTypeSet)
  /\ cargoValue = SumValueOver(cargoManifest, Earlier_CargoTypeSet)

\* C33 as stated: in the earlier variant the cargo invariant holds after
\* emergencyTow(): cargoUsed is the sum of the manifest counts and
\* cargoValue the sum of the manifest values.
Orig_C33 ==
  lastOp.name = "emergencyTow" => EarlierCargoConsistent

\* C34: in every reachable state the robot is stranded exactly when the fuel
\* is 0, and the fuel is 0 only underground (y > 0); so on the surface row the
\* fuel is at least 1 and no step is attempted from the surface with no fuel
\* (the zero-fuel surface coast branch of attemptStep is never taken).
Thm_C34 ==
  /\ stranded <=> fuel = 0
  /\ fuel = 0 => robotY > 0
  /\ fuel >= 0
  /\ robotY = 0 => fuel >= 1
  /\ lastOp.name = "attemptStep" => ~(prev.fuel <= 0 /\ prev.robotY = 0)

\* a step has just spent the last fuel underground and stranded the robot
Wit_C34 ==
  /\ lastOp.name = "attemptStep"
  /\ prev.fuel >= 1
  /\ ~prev.stranded
  /\ fuel = 0
  /\ stranded
  /\ robotY > 0

\* a step has brought the robot back to the surface row with fuel left
Wit_C34_surface ==
  /\ lastOp.name = "attemptStep"
  /\ prev.robotY = 1
  /\ robotY = 0
  /\ fuel >= 1
  /\ ~stranded

\* the depots whose panel openDepot opens from the position of s
Openable(s) ==
  {d \in DepotIds : openDepot([s EXCEPT !.depotPanel = NoDepot], d).depotPanel = d}

\* C35: whenever the panel of a depot d is open the robot is on the surface
\* row within one column of d; no column is within one column of two depots,
\* so from any position at most one panel can be opened.
Thm_C35 ==
  /\ depotPanel # NoDepot =>
       /\ robotY = 0
       /\ Abs(robotX - DepotX(depotPanel)) <= DEPOT_INTERACT_DISTANCE
  /\ lastOp.name = "init" =>
       \A x \in 0..(WORLD_WIDTH - 1) :
         Cardinality({i \in 1..Len(DEPOTS) :
                        Abs(x - DEPOTS[i].x) <= DEPOT_INTERACT_DISTANCE}) <= 1
  /\ lastOp.name = "openDepot" =>
       /\ Cardinality(Openable(prev)) <= 1
       /\ depotPanel # prev.depotPanel => Openable(prev) = {depotPanel}

\* a panel has just been opened from the column next to its depot
Wit_C35 ==
  /\ lastOp.name = "openDepot"
  /\ prev.depotPanel = NoDepot
  /\ depotPanel = lastOp.id
  /\ Abs(robotX - DepotX(depotPanel)) = 1
  /\ Openable(Cur) = {depotPanel}

\* the operations that build a new shaft
NewShaftOps == {"mount", "startNewShaft", "createNewProfile", "switchProfile"}

\* the cells next to position p, and p itself
Around(p) == {p} \cup {<<p[1] + d[1], p[2] + d[2]>> : d \in Directions}

\* C36: in every reachable state the robot is inside the grid (0 <= x < 22,
\* 0 <= y < 420) and stands on an empty cell; within one shaft a cell only
\* ever changes from non-empty to empty.
Thm_C36 ==
  /\ 0 <= robotX /\ robotX < WORLD_WIDTH
  /\ 0 <= robotY /\ robotY < WORLD_HEIGHT
  /\ TileAt(world, robotX, robotY) = "empty"
  /\ lastOp.name \notin NewShaftOps \cup {"attemptStep"} => world = prev.world
  /\ lastOp.name = "attemptStep" =>
       /\ world.seed = prev.world.seed
       /\ prev.world.mined \subseteq world.mined
       /\ \A c \in Around(Position(prev)) :
            TileAt(world, c[1], c[2]) # TileAt(prev.world, c[1], c[2]) =>
              /\ TileAt(prev.world, c[1], c[2]) # "empty"
              /\ TileAt(world, c[1], c[2]) = "empty"

\* a step has mined the cell the robot now stands on
Wit_C36 ==
  /\ lastOp.name = "attemptStep"
  /\ Position(Cur) # Position(prev)
  /\ TileAt(prev.world, robotX, robotY) # "empty"
  /\ TileAt(world, robotX, robotY) = "empty"
  /\ prev.world.mined # {}

\* a step off the top of the grid has been refused
Wit_C36_edge ==
  /\ lastOp.name = "attemptStep"
  /\ lastOp.dy = -1
  /\ prev.robotY = 0
  /\ ~StepGate(prev)
  /\ Position(Cur) = Position(prev)

\* C37: cargoUsed <= 12 + 7 * cargoLevel in every reachable state, also after
\* a new-profile reset or a profile switch that lowers the cargo level.
Thm_C37 ==
  /\ cargoUsed >= 0
  /\ cargoUsed <= 12 + 7 * cargoLevel
  /\ getCargoCapacity(cargoLevel) = 12 + 7 * cargoLevel

\* a reset or a switch has just lowered the cargo level below what the hold
\* carried before it
Wit_C37 ==
  /\ lastOp.name \in {"switchProfile", "createNewProfile"}
  /\ cargoLevel < prev.cargoLevel
  /\ prev.cargoUsed > 12 + 7 * cargoLevel

\* the hold is full
Wit_C37_full ==
  /\ lastOp.name = "attemptStep"
  /\ cargoUsed = prev.cargoUsed + 1
  /\ cargoUsed = 12 + 7 * cargoLevel

\* C38 as stated: every manifest entry has value > 0 only if its count is
\* > 0, cargoValue > 0 only if cargoUsed > 0, and a sale that pays was made
\* with at least one cargo unit aboard.
Orig_C38 ==
  /\ \A t \in CargoTypeSet : cargoManifest[t].value > 0 => cargoManifest[t].count > 0
  /\ cargoValue > 0 => cargoUsed > 0
  /\ lastOp.name = "sellCargo" /\ money > prev.money => prev.cargoUsed > 0

\* the operations that load a profile or prepare the load
LoadingOps == {"mount", "switchProfile", "switchProfileClick", "render", "profileEffect"}

\* C39 as stated: under every interleaving of the input events with the
\* render that retargets the active-profile ref and the later effect that
\* loads the new profile, a stored snapshot is only overwritten with the
\* progression loaded from or earned under that same profile: an operation
\* changes no snapshot but that of the profile whose progression is in
\* memory, and loading changes none.
Orig_C39 ==
  /\ lastOp.name \in LoadingOps => storage.profiles = prev.storage.profiles
  /\ lastOp.name \notin LoadingOps =>
       \A p \in 0..(PROFILE_COUNT - 1) :
         storage.profiles[p] # prev.storage.profiles[p] => p = reactState.effectDeps

\* the tile a step from s in direction d would enter, "none" off the grid
TargetTile(s, d) ==
  LET x == s.robotX + d[1]
      y == s.robotY + d[2]
  IN IF x < 0 \/ x >= WORLD_WIDTH \/ y < 0 \/ y >= WORLD_HEIGHT THEN "none"
     ELSE TileAt(s.world, x, y)

\* the drill of s cuts the tile
Cuts(s, tile) ==
  LET drillTier == getDrillTier(s.drillLevel) IN
  /\ tile = "stone" => drillTier >= STONE_REQUIRED_DRILL_TIER
  /\ tile = "aegis" => drillTier >= AEGIS_REQUIRED_DRILL_TIER
  /\ tile = "voidbed" => drillTier >= VOIDBED_REQUIRED_DRILL_TIER

\* a step from s in direction d is a mining step nothing but fuel could stop
Minable(s, d) ==
  LET tile == TargetTile(s, d) IN
  /\ ~StepGate(s)
  /\ tile \notin {"none", "empty"}
  /\ ~CargoFull(s, tile)
  /\ Cuts(s, tile)

\* C40: a mining step is accepted whenever fuel >= 1, even when its fuel
\* cost exceeds the fuel left: the tile is mined, the ore credited, the fuel
\* becomes exactly 0 and the robot, underground, is stranded in that step.
Thm_C40 ==
  /\ \A d \in Directions :
       lastOp.name = "attemptStep" /\ Minable(Cur, d) /\ fuel >= 1 =>
         LET tile == TargetTile(Cur, d)
             cost == FuelCost(tile, getDrillTier(drillLevel))
             r == attemptStep(Cur, d[1], d[2])
         IN /\ r.ret # Null
            /\ Position(r.s) = <<robotX + d[1], robotY + d[2]>>
            /\ TileAt(r.s.world, r.s.robotX, r.s.robotY) = "empty"
            /\ r.s.cargoUsed = cargoUsed + (IF isSellableCargoTile(tile) THEN 1 ELSE 0)
            /\ r.s.fuel = Max(0, fuel - cost)
            /\ cost >= fuel => r.s.fuel = 0 /\ r.s.stranded /\ r.s.robotY > 0
  /\ lastOp.name = "attemptStep" /\ world # prev.world =>
       LET tile == TileAt(prev.world, robotX, robotY)
           cost == FuelCost(tile, getDrillTier(prev.drillLevel))
       IN /\ prev.fuel >= 1
          /\ fuel = Max(0, prev.fuel - cost)
          /\ cost > prev.fuel =>
               /\ fuel = 0
               /\ stranded
               /\ robotY > 0
               /\ isSellableCargoTile(tile) =>
                    /\ cargoUsed = prev.cargoUsed + 1
                    /\ cargoValue = prev.cargoValue + MinedValue(tile, robotY)

\* a mining step has been accepted with less fuel than it costs: the ore is
\* aboard, the tank is empty and the robot is stranded
Wit_C40 ==
  /\ lastOp.name = "attemptStep"
  /\ world # prev.world
  /\ prev.fuel >= 1
  /\ FuelCost(TileAt(prev.world, robotX, robotY), getDrillTier(prev.drillLevel)) > prev.fuel
  /\ isSellableCargoTile(TileAt(prev.world, robotX, robotY))
  /\ cargoUsed = prev.cargoUsed + 1
  /\ fuel = 0
  /\ stranded

=============================================================================
